---- MODULE Spec2Model ----
(***************************************************************************)
(* Model of the trading control plane of the cross-venue arbitrage engine: *)
(* the per-symbol loop of ArbitrageOrchestrator (steps 4..9), the          *)
(* ExecutionEngine (OPEN / CLOSE / REBALANCE / FLATTEN, live-order gate,   *)
(* submission path) and the PositionManager ledger, for one symbol.        *)
(*                                                                         *)
(* Quantities are Decimals in the code; here one unit is 0.0001, so that   *)
(* base_order_qty = 0.001 is 10 and every product with the batch weights   *)
(* and the risk multipliers is exact.  z-scores and bps edges are in       *)
(* tenths.  Venue-A is "paradex", Venue-B is "grvt".                       *)
(***************************************************************************)
EXTENDS Integers, Sequences, FiniteSets, TLC

VARIABLES
    hp_last_check,      \* HealthItem.last_check_ms of each venue (NoCheck: no item yet)
    hp_pc,              \* where each symbol loop stands in the health checks of its iteration
    hp_now,             \* utc_ms(), in ticks
    hp_started,         \* history: when the latest health_check of each venue was started
    hp_call,            \* history: the latest step of a loop
    cr_ledger,          \* PositionState of the symbol both tasks work on: <<paradex, grvt>>
    cr_task,            \* the symbol loop and the operator's flatten: where each engine call stands
    cr_start,           \* history: the ledger before the operations began
    cr_submitted,       \* history: reduce-only quantity booked as filled or in flight
    pm_states,          \* PositionManager._states: symbol -> PositionState
    pm_calls,           \* history: the latest two calls with the ledger they found
    pm_count,           \* number of calls made on the position manager
    pc,                 \* position of the symbol loop inside one iteration
    synced,             \* last_position_sync_ms # 0: a position sync has happened
    submitted,          \* number of orders handed to _submit so far
    paradex,            \* PositionState.paradex (Venue-A leg)
    grvt,               \* PositionState.grvt (Venue-B leg)
    live_order_enabled, \* ExecutionEngine.live_order_enabled
    mode,               \* ModeController.mode
    tokens,             \* RateLimiter bucket (venue, "order") -> tokens
    stale, ws_ok, consistency_ok, health_ok,   \* gates of step 5
    can_open,           \* orchestrator.py line 238
    signal,             \* SpreadSignal of this iteration
    quote,              \* effective Venue-B BBO handed to execute_signal
    op,                 \* engine coroutine in progress
    caller,             \* loop step that awaits the engine
    requests,           \* execute_rebalance: orders still to submit
    batches,            \* _open_batches: batches still to execute
    hedge_qty,          \* _open_batches: filled quantity awaiting its hedge
    attempted, success, failed,    \* counters of the running engine call
    report,             \* last ExecutionReport returned
    events,             \* events emitted in this iteration
    log,                \* history: _submit calls of the latest engine call
    entry,              \* history: flag and ledger at the latest engine entry
    close_run,          \* history: consecutive fully filled CLOSE executions
    calls,              \* history: engine entry points called this iteration
    pl_pc,              \* rebalance planner: "input", "planned" or "applied"
    pl_tolerance,       \* build_rebalance_orders: argument tolerance
    pl_base_qty,        \* build_rebalance_orders: argument base_qty
    plan,               \* build_rebalance_orders: the orders returned
    pl_before,          \* history: ledger the planner was called on
    engine_status,      \* ArbitrageOrchestrator.engine_status
    config_live,        \* config.runtime.live_order_enabled
    simulated_market_data,  \* config.runtime.simulated_market_data
    simulate_market_data,   \* adapter -> its simulate_market_data / dry_run
    connected,          \* adapter -> connect() was called and disconnect() not since
    tasks,              \* symbol tasks held in _tasks: "none", "running", "cancelled"
    orphan_tasks,       \* symbol tasks still running that _tasks no longer holds
    status_lock,        \* _status_lock: "free", or the coroutine holding it
    stop_caller,        \* who awaits the stop() in progress: "api" or "shutdown"
    shutdown_pc,        \* position of the shutdown() in progress
    shutdowns,          \* number of shutdown() calls that have ended
    repository_closed,  \* Repository.close() was called
    late_write,         \* history: an event was written after Repository.close()
    rt_call,            \* history: the latest control call and its result
    rt_before,          \* history: the runtime flags when that call was made
    tb_rate,            \* TokenBucket.rate_per_sec, in tokens per tick
    tb_capacity,        \* TokenBucket.capacity
    tb_tokens,          \* TokenBucket._tokens
    tb_last_refill_at,  \* TokenBucket._last_refill_at
    tb_now,             \* time.monotonic(), in ticks
    tb_task,            \* task -> its acquire() in progress, if any
    tb_last,            \* history: the latest call that returned, and its result
    tb_debited_at,      \* history: tick -> tokens debited during that tick
    tb_zero_at,         \* history: tick at which the bucket was last left empty
    cg_present,         \* ConsistencyGuard._state holds the symbol
    cg_failed_count,    \* SymbolConsistency.failed_count
    cg_ok,              \* SymbolConsistency.ok
    cg_ret,             \* value returned by the latest check()
    cg_in,              \* history: the four BBOs of the latest check()
    cg_prev,            \* history: failed_count before the latest check()
    cg_run,             \* history: failing checks since the last passing one
    cg_checks,          \* number of check() calls so far
    hg_items,           \* HealthGuard._items: venue -> HealthItem, if registered
    hg_call,            \* history: the latest call on the health guard
    hg_prev,            \* history: the venue's fail_count before the latest update()
    hg_result,          \* value returned by the latest can_open()
    ws_states,          \* WsSupervisor._states: venue -> WsState, if registered
    ws_now,             \* utc_ms(), in ticks
    ws_call,            \* history: the latest call on the supervisor
    ws_prev,            \* history: the venue's WsState before the latest call
    ws_result,          \* value returned by the latest is_ok()
    ob_books,           \* OrderBookManager._books: symbol -> SymbolBooks
    ob_now,             \* utc_ms(), in ticks
    ob_call,            \* history: the latest call on the cache and what it returned
    ob_updates,         \* number of update_ws / update_rest calls so far
    bc_conn,            \* /ws/stream connection -> its two queues, if registered
    bc_seq,             \* number of messages broadcast so far; a message is its number
    bc_call,            \* history: the latest broadcast or consumer step
    se_history,         \* SpreadEngine._history[symbol]: ring of signed edges
    se_in,              \* the BBO pair of the latest compute_metrics
    se_metrics,         \* SpreadMetrics handed to generate_signal
    se_mode,            \* mode handed to generate_signal
    se_signal,          \* SpreadSignal returned by the latest generate_signal
    se_call,            \* history: the latest call on the spread engine
    sh_store,           \* table market_spread_history, rows in id order
    sh_memory,          \* NominalSpreadScanner._history_by_symbol
    sh_counter,         \* NominalSpreadScanner._history_append_counter_by_symbol
    sh_seeded,          \* NominalSpreadScanner._history_seeded_symbols
    sh_now,             \* utc_iso(), in ticks
    sh_points,          \* number of rows inserted so far
    sh_row,             \* what the latest _fetch_pair_row was given and returned
    sh_call,            \* history: the latest _append_market_history_point
    sc_cache,           \* NominalSpreadScanner: _rows, _last_refresh_monotonic,
                        \* _last_error, _warmup_done
    sc_lock,            \* holder of NominalSpreadScanner._lock
    sc_pc,              \* where each request stands in _ensure_cache
    sc_now,             \* time.monotonic(), in ticks
    sc_scans,           \* number of venue scans started
    sc_arrival,         \* history: what each waiting request found when it arrived
    sc_finished,        \* history: when the latest refresh finished
    sc_fetches,         \* the fetch_one tasks of the scan: waiting, fetching, returned
    sc_semaphore,       \* value of the Semaphore of _scan_all_symbols
    sc_call             \* history: the latest step of a request

(* state of the symbol loop and the execution engine *)
loopVars == <<pc, synced, submitted, paradex, grvt, live_order_enabled, mode, tokens,
              stale, ws_ok, consistency_ok, health_ok, can_open, signal, quote,
              op, caller, requests, batches, hedge_qty,
              attempted, success, failed, report, events, log, entry, close_run, calls>>

(* the same without the ledger and the engine's live-order flag *)
loopRestVars == <<pc, synced, submitted, mode, tokens,
                  stale, ws_ok, consistency_ok, health_ok, can_open, signal, quote,
                  op, caller, requests, batches, hedge_qty,
                  attempted, success, failed, report, events, log, entry, close_run, calls>>

plannerVars == <<pl_pc, pl_tolerance, pl_base_qty, plan, pl_before>>

runtimeVars == <<engine_status, config_live, simulated_market_data, simulate_market_data,
                 connected, tasks, orphan_tasks, status_lock, stop_caller, shutdown_pc,
                 shutdowns, repository_closed, late_write, rt_call, rt_before>>

bucketVars == <<tb_rate, tb_capacity, tb_tokens, tb_last_refill_at, tb_now, tb_task,
                tb_last, tb_debited_at, tb_zero_at>>

consistencyVars == <<cg_present, cg_failed_count, cg_ok, cg_ret, cg_in, cg_prev, cg_run,
                     cg_checks>>

healthVars == <<hg_items, hg_call, hg_prev, hg_result>>

wsVars == <<ws_states, ws_now, ws_call, ws_prev, ws_result>>

(* planner, runtime and risk guards *)
controlVars == <<plannerVars, runtimeVars, bucketVars, consistencyVars, healthVars>>

(* supervisor, caches, broadcast queues, signal engine, scanner and stores *)
bookVars == <<ob_books, ob_now, ob_call, ob_updates>>

broadcastVars == <<bc_conn, bc_seq, bc_call>>

signalVars == <<se_history, se_in, se_metrics, se_mode, se_signal, se_call>>

rowVars == <<sh_store, sh_memory, sh_counter, sh_seeded, sh_now, sh_points, sh_row, sh_call>>
cacheVars == <<sc_cache, sc_lock, sc_pc, sc_now, sc_scans, sc_arrival, sc_finished, sc_call,
              sc_fetches, sc_semaphore>>

ledgerBookVars == <<pm_states, pm_calls, pm_count>>

reduceVars == <<cr_ledger, cr_task, cr_start, cr_submitted>>

probeVars == <<hp_last_check, hp_pc, hp_now, hp_started, hp_call>>

\* BEGIN services
servicesVars == <<wsVars, bookVars, broadcastVars, signalVars, rowVars, cacheVars, ledgerBookVars, reduceVars, probeVars>>
exceptWs == <<controlVars, bookVars, broadcastVars, signalVars, rowVars, cacheVars, ledgerBookVars, reduceVars, probeVars>>
exceptBooks == <<controlVars, wsVars, broadcastVars, signalVars, rowVars, cacheVars, ledgerBookVars, reduceVars, probeVars>>
exceptBroadcast == <<controlVars, wsVars, bookVars, signalVars, rowVars, cacheVars, ledgerBookVars, reduceVars, probeVars>>
exceptSignal == <<controlVars, wsVars, bookVars, broadcastVars, rowVars, cacheVars, ledgerBookVars, reduceVars, probeVars>>
exceptRow == <<controlVars, wsVars, bookVars, broadcastVars, signalVars, cacheVars, ledgerBookVars, reduceVars, probeVars>>
exceptCache == <<controlVars, wsVars, bookVars, broadcastVars, signalVars, rowVars, ledgerBookVars, reduceVars, probeVars>>
exceptLedger == <<controlVars, wsVars, bookVars, broadcastVars, signalVars, rowVars, cacheVars, reduceVars, probeVars>>
exceptReduce == <<controlVars, wsVars, bookVars, broadcastVars, signalVars, rowVars, cacheVars, ledgerBookVars, probeVars>>
exceptProbe == <<controlVars, wsVars, bookVars, broadcastVars, signalVars, rowVars, cacheVars, ledgerBookVars, reduceVars>>
\* END services

(* state of the components that the symbol loop leaves alone *)
auxVars == <<controlVars, servicesVars>>

(* what the actions of one component leave alone besides the symbol loop *)
exceptPlanner == <<runtimeVars, bucketVars, consistencyVars, healthVars, servicesVars>>
exceptRuntime == <<plannerVars, bucketVars, consistencyVars, healthVars, servicesVars>>
exceptBucket == <<plannerVars, runtimeVars, consistencyVars, healthVars, servicesVars>>
exceptConsistency == <<plannerVars, runtimeVars, bucketVars, healthVars, servicesVars>>
exceptHealth == <<plannerVars, runtimeVars, bucketVars, consistencyVars, servicesVars>>

vars == <<loopVars, auxVars>>

----------------------------------------------------------------------------
(* Bounds of the exploration *)

MaxOrders == 4
OrderCap == 1
MaxLeg == 12
MaxShutdowns == 2
MaxTime == 3
MaxCap == 2
MaxRate == 2
MaxChecks == 5
MaxFails == 4
MaxReconnects == 2
MaxBookTime == 2
MaxBookUpdates == 3
MaxMessages == 4
MaxHistoryTime == 1
MaxPoints == 3
MaxScanTime == 3
MaxScans == 3
MaxLedgerCalls == 3
MaxPairs == 7
MaxProbeTime == 3

(* Program configuration (defaults of config.py, scaled) *)

base_order_qty == 10
max_batch_qty == 50
max_position == 1000
z_entry == 18
z_exit == 6
z_zero_entry == 12
z_zero_exit == 3
min_edge_bps == 10
consistency_max_failures == 3
health_fail_threshold == 3

(* health_cache_ms = 3000, in ticks of 1.5 s *)
health_cache_ms == 2

(* ws_idle_timeout_sec = 8, in ticks of 4 s *)
ws_idle_timeout == 2

(* stale_ms = 1200, in ticks of 1200 ms *)
stale_ms == 1

(* asyncio.Queue(maxsize=200) of register_ws_queue, scaled to 3, and        *)
(* asyncio.Queue(maxsize=1) of register_market_ws_queue                    *)
ws_queue_maxsize == 3
market_ws_queue_maxsize == 1

(* ma_window = 120, std_window = 120 and min_samples = 60, scaled to 2     *)
ma_window == 2
std_window == 2
min_samples == 2

(* the scanner trims on every 20th append, scaled to every 2nd, and keeps   *)
(* history_retention = 2000 rows, scaled to 1                              *)
history_trim_every == 2
history_retention == 1

(* scan_interval_sec, at least 5 s in the source, scaled to 2 ticks *)
scan_interval_sec == 2

(* DEFAULT_MIN_EFFECTIVE_LEVERAGE and the clamp of _sanitize_leverage *)
min_effective_leverage == 50
leverage_floor == 1
leverage_cap == 200

(* DEFAULT_OFFICIAL_PARADEX_TAKER_FEE and DEFAULT_OFFICIAL_GRVT_MAKER_FEE, *)
(* in units of 0.0001                                                      *)
paradex_taker_fee == 2
grvt_maker_fee == 2

(* base_order_qty * net_pos_guard_multiplier (1.5) and                    *)
(* base_order_qty * hard_net_limit_multiplier (3.0)                       *)
net_guard == (base_order_qty * 15) \div 10
hard_limit == (base_order_qty * 30) \div 10

(* Inputs the environment can supply *)

PosPairs == {<<0, 0>>, <<4, -4>>, <<20, 0>>, <<-10, 30>>, <<100, 0>>,
             <<-30, -10>>, <<1000, -1000>>}
EdgeVals == {-20, 5, 20}
ZVals == {0, 10, 25}
Quotes == {[bid |-> 999, ask |-> 1002]}
NoQuote == [bid |-> 0, ask |-> 0]
Modes == {"normal_arb", "zero_wear"}
Venues == {"paradex", "grvt"}

Abs(x) == IF x < 0 THEN -x ELSE x
Min(x, y) == IF x <= y THEN x ELSE y

RECURSIVE SumSeq(_)
SumSeq(s) == IF s = <<>> THEN 0 ELSE Head(s) + SumSeq(Tail(s))

(* Quantities a venue may report as filled for a request of quantity q *)
FillChoices(q) == {0, q \div 2, q}

----------------------------------------------------------------------------
(* PositionManager *)

net_exposure(a, b) == a + b

(* variant: a Venue-B fill is booked with the sign inverted *)
apply_fill_inverted(a, b, exchange, side, qty) ==
    IF exchange = "paradex"
    THEN <<a + (IF side = "buy" THEN qty ELSE -qty), b>>
    ELSE <<a, b + (IF side = "buy" THEN -qty ELSE qty)>>

(* variant: the side of the fill is ignored *)
apply_fill_side_ignored(a, b, exchange, side, qty) ==
    IF exchange = "paradex" THEN <<a + qty, b>> ELSE <<a, b + qty>>

apply_fill(a, b, exchange, side, qty) ==
    IF exchange = "paradex"
    THEN <<a + (IF side = "buy" THEN qty ELSE -qty), b>>
    ELSE <<a, b + (IF side = "buy" THEN qty ELSE -qty)>>

(* variant: one leg under the cap is enough *)
position_can_open_any_leg(a, b, maxpos) == Abs(a) <= maxpos \/ Abs(b) <= maxpos

position_can_open(a, b, maxpos) == Abs(a) <= maxpos /\ Abs(b) <= maxpos

is_imbalanced(a, b, tolerance) == Abs(net_exposure(a, b)) > tolerance

is_hard_limit_breached(a, b, hard) == Abs(net_exposure(a, b)) > hard

RebalanceOrder(exchange, side, qty) ==
    [exchange |-> exchange, side |-> side, quantity |-> qty]

(* variant: the order is sized to the whole net exposure *)
build_rebalance_orders_full_net(a, b, tolerance, base_qty) ==
    LET net == net_exposure(a, b)
        qty == Abs(net)
    IN IF Abs(net) <= tolerance THEN <<>>
       ELSE IF qty <= 0 THEN <<>>
       ELSE IF net > 0
            THEN IF a >= b THEN <<RebalanceOrder("paradex", "sell", qty)>>
                 ELSE <<RebalanceOrder("grvt", "sell", qty)>>
            ELSE IF a <= b THEN <<RebalanceOrder("paradex", "buy", qty)>>
                 ELSE <<RebalanceOrder("grvt", "buy", qty)>>

build_rebalance_orders(a, b, tolerance, base_qty) ==
    LET net == net_exposure(a, b)
        qty == Min(Abs(net), base_qty)
    IN IF Abs(net) <= tolerance THEN <<>>
       ELSE IF qty <= 0 THEN <<>>
       ELSE IF net > 0
            THEN IF a >= b THEN <<RebalanceOrder("paradex", "sell", qty)>>
                 ELSE <<RebalanceOrder("grvt", "sell", qty)>>
            ELSE IF a <= b THEN <<RebalanceOrder("paradex", "buy", qty)>>
                 ELSE <<RebalanceOrder("grvt", "buy", qty)>>

----------------------------------------------------------------------------
(* SpreadEngine: signal generation *)

Weights(m) == IF m = "zero_wear" THEN <<6, 4, 2>> ELSE <<10, 7, 5>>

_build_batches(zabs, m) ==
    LET count == IF zabs < 23 THEN 1 ELSE IF zabs < 30 THEN 2 ELSE 3
        qtys == [i \in 1..count |->
                    Min((base_order_qty * Weights(m)[i]) \div 10, max_batch_qty)]
        kept == SelectSeq(qtys, LAMBDA q : q > 0)
    IN IF kept # <<>> THEN kept ELSE <<Min(base_order_qty, max_batch_qty)>>

Signal(action, direction, bs) ==
    [action |-> action, direction |-> direction, batches |-> bs]

(* variant: the entry threshold is tested before the edge *)
generate_signal_entry_first(edge, z, m) ==
    LET edge_abs == Abs(edge)
        zin == IF m = "zero_wear" THEN z_zero_entry ELSE z_entry
        zout == IF m = "zero_wear" THEN z_zero_exit ELSE z_exit
        min_edge == IF m = "zero_wear" THEN (min_edge_bps * 7) \div 10 ELSE min_edge_bps
        direction == IF edge >= 0 THEN "long_paradex_short_grvt"
                     ELSE "long_grvt_short_paradex"
    IN IF Abs(z) >= zin THEN Signal("open", direction, _build_batches(Abs(z), m))
       ELSE IF edge_abs < min_edge THEN Signal("hold", direction, <<>>)
       ELSE IF Abs(z) <= zout THEN Signal("close", direction, <<base_order_qty>>)
       ELSE Signal("hold", direction, <<>>)

generate_signal(edge, z, m) ==
    LET edge_abs == Abs(edge)
        zin == IF m = "zero_wear" THEN z_zero_entry ELSE z_entry
        zout == IF m = "zero_wear" THEN z_zero_exit ELSE z_exit
        min_edge == IF m = "zero_wear" THEN (min_edge_bps * 7) \div 10 ELSE min_edge_bps
        direction == IF edge >= 0 THEN "long_paradex_short_grvt"
                     ELSE "long_grvt_short_paradex"
    IN IF edge_abs < min_edge THEN Signal("hold", direction, <<>>)
       ELSE IF Abs(z) >= zin THEN Signal("open", direction, _build_batches(Abs(z), m))
       ELSE IF Abs(z) <= zout THEN Signal("close", direction, <<base_order_qty>>)
       ELSE Signal("hold", direction, <<>>)

(* orchestrator: effective pair missing or invalid *)
HoldNoBook == Signal("hold", "none", <<>>)

----------------------------------------------------------------------------
(* ExecutionEngine: requests, reports, submission path *)

OrderRequest(exchange, side, qty, order_type, price, reduce_only, post_only, tag) ==
    [exchange |-> exchange, side |-> side, quantity |-> qty,
     order_type |-> order_type, price |-> price,
     reduce_only |-> reduce_only, post_only |-> post_only, tag |-> tag]

NoPrice == -1

ExecutionReport(action, att, suc, fl, message) ==
    [action |-> action, attempted_orders |-> att, success_orders |-> suc,
     failed_orders |-> fl, message |-> message]

NoReport == ExecutionReport("none", 0, 0, 0, "none")

_order_blocked_report(action) == ExecutionReport(action, 0, 0, 0, "live_disabled")

_resolve_sides(direction) ==
    IF direction = "long_grvt_short_paradex" THEN <<"sell", "buy">>
    ELSE <<"buy", "sell">>

(* one reduce-only market order for a non-zero leg, quantity qty *)
LegRequest(exchange, leg, qty, tag) ==
    IF leg > 0
    THEN <<OrderRequest(exchange, "sell", qty, "market", NoPrice, TRUE, FALSE, tag)>>
    ELSE IF leg < 0
    THEN <<OrderRequest(exchange, "buy", qty, "market", NoPrice, TRUE, FALSE, tag)>>
    ELSE <<>>

(* variant: flatten quantities capped by base_order_qty *)
FlattenRequests_capped(a, b) ==
    LegRequest("paradex", a, Min(Abs(a), base_order_qty), "flatten")
      \o LegRequest("grvt", b, Min(Abs(b), base_order_qty), "flatten")

FlattenRequests(a, b) ==
    LegRequest("paradex", a, Abs(a), "flatten") \o LegRequest("grvt", b, Abs(b), "flatten")

close_qty(sig) == IF sig.batches # <<>> THEN SumSeq(sig.batches) ELSE base_order_qty

(* variant: the close quantity is not capped by the leg *)
CloseRequests_uncapped(a, b, sig) ==
    LegRequest("paradex", a, close_qty(sig), "close")
      \o LegRequest("grvt", b, close_qty(sig), "close")

CloseRequests(a, b, sig) ==
    LegRequest("paradex", a, Min(Abs(a), close_qty(sig)), "close")
      \o LegRequest("grvt", b, Min(Abs(b), close_qty(sig)), "close")

RebalanceRequests(ops) ==
    [i \in 1..Len(ops) |->
        OrderRequest(ops[i].exchange, ops[i].side, ops[i].quantity,
                     "market", NoPrice, TRUE, FALSE, "rebalance")]

TakerRequest(direction, qty) ==
    OrderRequest("paradex", _resolve_sides(direction)[1], qty,
                 "market", NoPrice, FALSE, FALSE, "open-taker")

(* variant: the hedge is priced on the far side of the book *)
HedgeRequest_crossing(direction, qty, q) ==
    LET hedge_side == _resolve_sides(direction)[2]
        hedge_maker_price == IF hedge_side = "buy" THEN q.ask ELSE q.bid
    IN OrderRequest("grvt", hedge_side, qty, "limit", hedge_maker_price,
                    FALSE, TRUE, "open-hedge")

HedgeRequest(direction, qty, q) ==
    LET hedge_side == _resolve_sides(direction)[2]
        hedge_maker_price == IF hedge_side = "buy" THEN q.bid ELSE q.ask
    IN OrderRequest("grvt", hedge_side, qty, "limit", hedge_maker_price,
                    FALSE, TRUE, "open-hedge")

(* variant: the health gate is left out of can_open *)
compute_can_open_no_health(st, ws, cons, health) == (~st) /\ ws /\ cons

(* orchestrator step 5: the open gate *)
compute_can_open(st, ws, cons, health) == (~st) /\ ws /\ cons /\ health

(* variant: the position cap is tested before the risk gate *)
execute_signal_branch_position_first(action, live, canopen, posok) ==
    IF action \in {"open", "close"} /\ ~live THEN "live_disabled"
    ELSE IF action = "hold" THEN "hold"
    ELSE IF action = "open" /\ ~posok THEN "max_position"
    ELSE IF action = "open" /\ ~canopen THEN "risk_blocked"
    ELSE IF action = "open" THEN "open"
    ELSE IF action = "close" THEN "close"
    ELSE "unknown"

(* variant: the risk gate also stops CLOSE *)
execute_signal_branch_close_gated(action, live, canopen, posok) ==
    IF action \in {"open", "close"} /\ ~live THEN "live_disabled"
    ELSE IF action = "hold" THEN "hold"
    ELSE IF action \in {"open", "close"} /\ ~canopen THEN "risk_blocked"
    ELSE IF action = "open" /\ ~posok THEN "max_position"
    ELSE IF action = "open" THEN "open"
    ELSE IF action = "close" THEN "close"
    ELSE "unknown"

(* execute_signal: the chain of early returns, in the order of the code *)
execute_signal_branch(action, live, canopen, posok) ==
    IF action \in {"open", "close"} /\ ~live THEN "live_disabled"
    ELSE IF action = "hold" THEN "hold"
    ELSE IF action = "open" /\ ~canopen THEN "risk_blocked"
    ELSE IF action = "open" /\ ~posok THEN "max_position"
    ELSE IF action = "open" THEN "open"
    ELSE IF action = "close" THEN "close"
    ELSE "unknown"

(* TokenBucket.acquire(1, timeout): the bucket is first refilled by the    *)
(* elapsed time; with a token available it is debited; with none the call  *)
(* either waits for the refill and debits, or times out without a debit.   *)
AcquireOutcomes(t) ==
    {[allowed |-> TRUE, tok |-> x - 1] : x \in (IF t >= 1 THEN t ELSE 1)..OrderCap}
      \cup (IF t = 0 THEN {[allowed |-> FALSE, tok |-> t]} ELSE {})

(* adapter.place_order: failure, or success with a reported filled quantity *)
PlaceOrderResults(req) ==
    {[success |-> FALSE, filled |-> 0]}
      \cup {[success |-> TRUE, filled |-> f] : f \in FillChoices(req.quantity)}

(* variant: a denied acquire does not stop the submission *)
SubmitAck_unthrottled(req, allowed, res) ==
    [allowed |-> allowed, placed |-> TRUE, success |-> res.success,
     raw |-> res.filled,
     filled |-> IF res.success /\ res.filled <= 0 /\ req.order_type = "market"
                THEN req.quantity ELSE res.filled]

(* variant: the acknowledged quantity is passed through unchanged *)
SubmitAck_raw(req, allowed, res) ==
    IF ~allowed
    THEN [allowed |-> FALSE, placed |-> FALSE, success |-> FALSE,
          raw |-> 0, filled |-> 0]
    ELSE [allowed |-> TRUE, placed |-> TRUE, success |-> res.success,
          raw |-> res.filled, filled |-> res.filled]

(* _submit: the acknowledgement handed back to the engine *)
SubmitAck(req, allowed, res) ==
    IF ~allowed
    THEN [allowed |-> FALSE, placed |-> FALSE, success |-> FALSE,
          raw |-> 0, filled |-> 0]
    ELSE [allowed |-> TRUE, placed |-> TRUE, success |-> res.success,
          raw |-> res.filled,
          filled |-> IF res.success /\ res.filled <= 0 /\ req.order_type = "market"
                     THEN req.quantity ELSE res.filled]

SubmitOutcomes(req, t) ==
    {[ack |-> SubmitAck(req, acq.allowed, res), tok |-> acq.tok] :
        acq \in AcquireOutcomes(t), res \in PlaceOrderResults(req)}

LogEntry(req, ack, before, after) ==
    [req |-> req, allowed |-> ack.allowed, placed |-> ack.placed,
     success |-> ack.success, raw |-> ack.raw, filled |-> ack.filled,
     before |-> before, after |-> after]

Entry(kind) ==
    [kind |-> kind, live |-> live_order_enabled, paradex |-> paradex, grvt |-> grvt]

NoEntry == [kind |-> "none", live |-> FALSE, paradex |-> 0, grvt |-> 0]

(* ledger from which a run of k fully filled CLOSE executions started *)
CloseRun(k, a, b) == [k |-> k, paradex |-> a, grvt |-> b]

FullyFilled(l) ==
    \A i \in 1..Len(l) : l[i].success /\ l[i].filled = l[i].req.quantity

Event(level, message) == [level |-> level, message |-> message]

----------------------------------------------------------------------------
(* the symbol loop and the engine before the first iteration *)
LoopRestInit ==
    /\ pc = "sync"
    /\ synced = FALSE
    /\ submitted = 0
    /\ mode = "normal_arb"
    /\ tokens = [v \in Venues |-> OrderCap]
    /\ stale = TRUE
    /\ ws_ok = FALSE
    /\ consistency_ok = FALSE
    /\ health_ok = FALSE
    /\ can_open = FALSE
    /\ signal = HoldNoBook
    /\ quote = NoQuote
    /\ op = "idle"
    /\ caller = "none"
    /\ requests = <<>>
    /\ batches = <<>>
    /\ hedge_qty = 0
    /\ attempted = 0
    /\ success = 0
    /\ failed = 0
    /\ report = NoReport
    /\ events = <<>>
    /\ log = <<>>
    /\ entry = NoEntry
    /\ close_run = CloseRun(0, 0, 0)
    /\ calls = <<>>

(* the planner is not being exercised on its own *)
PlannerParked ==
    /\ pl_pc = "input"
    /\ pl_tolerance = net_guard
    /\ pl_base_qty = base_order_qty
    /\ plan = <<>>
    /\ pl_before = <<0, 0>>

(* runtime flags as a record, for the history of the control calls *)
RtFlags(live, simulated, engine_live, adapters) ==
    [live |-> live, simulated |-> simulated, engine_live |-> engine_live,
     adapters |-> adapters]

RtCall(o, a, k, st) == [op |-> o, arg |-> a, ok |-> k, status |-> st]

(* the orchestrator right after construction, apart from the two flags *)
RuntimeRestInit ==
    /\ engine_status = "stopped"
    /\ simulate_market_data = [v \in Venues |-> simulated_market_data]
    /\ connected = [v \in Venues |-> FALSE]
    /\ tasks = "none"
    /\ orphan_tasks = FALSE
    /\ status_lock = "free"
    /\ stop_caller = "api"
    /\ shutdown_pc = "idle"
    /\ shutdowns = 0
    /\ repository_closed = FALSE
    /\ late_write = FALSE
    /\ rt_call = RtCall("none", FALSE, "none", "stopped")
    /\ rt_before = RtFlags(config_live, simulated_market_data, live_order_enabled,
                           simulate_market_data)

(* the control plane is not being exercised on its own *)
RuntimeParked ==
    /\ config_live = FALSE
    /\ simulated_market_data = FALSE
    /\ RuntimeRestInit

(* tasks that share one token bucket *)
TbTasks == {"t1", "t2"}

TbIdle == [pc |-> "idle", n |-> 0, deadline |-> 0, since |-> 0, slept |-> FALSE]

TbResult(t, o, n, r, d, sl) ==
    [task |-> t, op |-> o, n |-> n, result |-> r, debited |-> d, slept |-> sl]

(* a bucket right after TokenBucket.__init__: it is full *)
BucketRestInit ==
    /\ tb_tokens = tb_capacity
    /\ tb_last_refill_at = 0
    /\ tb_now = 0
    /\ tb_task = [t \in TbTasks |-> TbIdle]
    /\ tb_last = TbResult("t1", "none", 0, "none", 0, FALSE)
    /\ tb_debited_at = [k \in 0..MaxTime |-> 0]
    /\ tb_zero_at = -1

(* no token bucket is being exercised on its own *)
BucketParked ==
    /\ tb_rate = 1
    /\ tb_capacity = 1
    /\ BucketRestInit

(* a BBO that is missing (None) *)
NoBBO == [bid |-> 0, ask |-> 0]

(* a consistency guard right after construction: no symbol state yet; the  *)
(* fields are those a fresh SymbolConsistency would have                   *)
InitConsistencyGuard ==
    /\ cg_present = FALSE
    /\ cg_failed_count = 0
    /\ cg_ok = TRUE
    /\ cg_ret = TRUE
    /\ cg_in = <<NoBBO, NoBBO, NoBBO, NoBBO>>
    /\ cg_prev = 0
    /\ cg_run = 0
    /\ cg_checks = 0

(* a venue without a HealthItem *)
NoItem == [registered |-> FALSE, ok |-> FALSE, fail_count |-> 0]

(* a health guard right after construction: no venue registered *)
InitHealthGuard ==
    /\ hg_items = [v \in Venues |-> NoItem]
    /\ hg_call = [op |-> "none", exchange |-> "paradex", ok |-> FALSE]
    /\ hg_prev = 0
    /\ hg_result = FALSE

(* the components that a specification does not exercise *)
GuardsParked == InitConsistencyGuard /\ InitHealthGuard

(* a venue without a WsState; the fields are the defaults of WsState *)
NoWsState == [registered |-> FALSE, connected |-> FALSE, reconnect_count |-> 0,
              last_message_ms |-> 0]

(* utc_ms() counts from the epoch: the clock starts far beyond one idle     *)
(* timeout after 0                                                         *)
WsEpoch == ws_idle_timeout + 1

(* a WS supervisor right after construction: no venue registered *)
InitWsSupervisor ==
    /\ ws_states = [v \in Venues |-> NoWsState]
    /\ ws_now = WsEpoch
    /\ ws_call = [op |-> "none", exchange |-> "paradex"]
    /\ ws_prev = NoWsState
    /\ ws_result = FALSE

ObSymbols == {"BTC", "ETH"}

(* a slot of SymbolBooks that holds None *)
NoneBBO == [bid |-> 0, ask |-> 0, timestamp_ms |-> 0, source |-> "none"]

(* SymbolBooks() *)
SymbolBooks == [paradex_ws |-> NoneBBO, grvt_ws |-> NoneBBO,
                paradex_rest |-> NoneBBO, grvt_rest |-> NoneBBO]

NoBookCall == [op |-> "none", exchange |-> "paradex", symbol |-> "BTC",
               stale |-> FALSE, pair |-> <<NoneBBO, NoneBBO>>]

(* an order-book cache right after construction: no symbol has books; a    *)
(* symbol without an entry reads as a fresh SymbolBooks (_ensure)          *)
InitOrderBooks ==
    /\ ob_books = [s \in ObSymbols |-> SymbolBooks]
    /\ ob_now = 0
    /\ ob_call = NoBookCall
    /\ ob_updates = 0

Connections == {"c1", "c2"}

(* a connection that is not open: neither queue is in its registry *)
NoConnection == [registered |-> FALSE, events |-> <<>>, market |-> <<>>,
                 sent_event |-> 0, sent_market |-> 0]

NoBroadcast == [op |-> "none", conn |-> "c1", message |-> 0, failed |-> FALSE]

(* _ws_queues = set() and market_ws_queues = set(): nobody is connected *)
InitBroadcast ==
    /\ bc_conn = [c \in Connections |-> NoConnection]
    /\ bc_seq = 0
    /\ bc_call = NoBroadcast

(* SpreadMetrics; ma is held as the sum of its window and std as the sum   *)
(* of the squared deviations of its window times the window length cubed,  *)
(* which is positive exactly when std is                                   *)
SpreadMetrics(p2g, g2p, signed, ma, std, z) ==
    [edge_para_to_grvt_bps |-> p2g, edge_grvt_to_para_bps |-> g2p,
     signed_edge_bps |-> signed, ma |-> ma, std |-> std, zscore |-> z]

SeNoPair == <<NoQuote, NoQuote>>

(* a spread engine right after construction: no history, nothing computed *)
InitSpreadEngine ==
    /\ se_history = <<>>
    /\ se_in = SeNoPair
    /\ se_metrics = SpreadMetrics(0, 0, 0, 0, 0, 0)
    /\ se_mode = "normal_arb"
    /\ se_signal = HoldNoBook
    /\ se_call = "none"

ScSymbols == {"BTC-PERP", "ETH-PERP"}

(* max_leverage is None, or not a number *)
NoLeverage == -1
BadLeverage == -2

NoDepth == [status |-> "none", paradex_bid |-> 0, paradex_ask |-> 0,
            grvt_bid |-> 0, grvt_ask |-> 0]

(* _fetch_pair_row returned (None, reason) *)
NoRow == [symbol |-> "none", effective_leverage |-> 0, tradable_edge_price |-> 0,
          net_nominal_spread |-> 0, direction |-> "none"]

NoPairCall == [symbol |-> "none", paradex_max_leverage |-> NoLeverage,
               grvt_max_leverage |-> NoLeverage, depth |-> NoDepth,
               row |-> NoRow, reason |-> "none"]

NoAppend == [op |-> "none", symbol |-> "none", ts |-> 0, source |-> "none",
             value |-> 0, inserted |-> FALSE]

(* a scanner right after construction, over an empty market_spread_history *)
InitScanHistory ==
    /\ sh_store = <<>>
    /\ sh_memory = [s \in ScSymbols |-> <<>>]
    /\ sh_counter = [s \in ScSymbols |-> 0]
    /\ sh_seeded = {}
    /\ sh_now = 0
    /\ sh_points = 0
    /\ sh_row = NoPairCall
    /\ sh_call = NoAppend

ScRequests == {"q1", "q2"}

(* the symbols the position manager is asked about *)
PmSymbols == {"BTC-PERP", "ETH-PERP"}

(* self._last_error = "" *)
NoScanError == [text |-> "", detail |-> ""]

NoArrival == [at |-> 0, forced |-> FALSE, finished |-> -1, rows |-> <<>>]

NoCacheCall == [op |-> "none", request |-> "none", forced |-> FALSE, rows |-> <<>>,
                waited |-> FALSE, raised |-> FALSE]

(* asyncio.Semaphore(6) *)
fetch_permits == 6

(* the fetch_one tasks of one scan: phase is "markets" until the pairs are *)
(* known and "pool" while the tasks run; peak is the largest number of     *)
(* tasks that were fetching at once                                        *)
Fetches(phase, queued, fetching, done, peak) ==
    [phase |-> phase, queued |-> queued, fetching |-> fetching, done |-> done,
     peak |-> peak]

(* the clock when the first request arrives *)
ScEpoch == scan_interval_sec + 1

(* a scanner right after construction *)
InitScanCache ==
    /\ sc_cache = [rows |-> <<>>, last_refresh_monotonic |-> 0,
                   last_error |-> NoScanError, warmup_done |-> FALSE]
    /\ sc_lock = "none"
    /\ sc_pc = [q \in ScRequests |-> "idle"]
    /\ sc_now = ScEpoch
    /\ sc_scans = 0
    /\ sc_arrival = [q \in ScRequests |-> NoArrival]
    /\ sc_finished = -1
    /\ sc_call = NoCacheCall
    /\ sc_fetches = Fetches("idle", 0, 0, 0, 0)
    /\ sc_semaphore = 0

(* PositionState(): both legs zero; _ensure creates it on first use *)
NewPositionState == [paradex |-> 0, grvt |-> 0]

(* a position manager right after construction *)
InitPositionManager ==
    /\ pm_states = [s \in PmSymbols |-> NewPositionState]
    /\ pm_calls = <<>>
    /\ pm_count = 0

(* the tasks that can run engine calls on one symbol *)
CrTasks == {"loop", "operator"}

CrIdle == [pc |-> "idle", kind |-> "none", requests |-> <<>>]

(* no engine call is running and nothing has been submitted *)
InitReducers ==
    /\ cr_ledger = <<0, 0>>
    /\ cr_task = [t \in CrTasks |-> CrIdle]
    /\ cr_start = <<0, 0>>
    /\ cr_submitted = [v \in Venues |-> 0]

(* the symbol loops that share the health guard *)
HpLoops == {"BTC-PERP", "ETH-PERP"}

(* no HealthItem, and no probe started yet *)
NoCheck == -1

(* the venue a loop is at, and whether its health_check is in flight *)
HpAt(exchange, probing) == [exchange |-> exchange, probing |-> probing]

HpCall(o, l, v, t) == [op |-> o, loop |-> l, exchange |-> v, last |-> t]

(* a health guard without items; every loop is about to check paradex *)
InitHealthProbes ==
    /\ hp_last_check = [v \in Venues |-> NoCheck]
    /\ hp_pc = [l \in HpLoops |-> HpAt("paradex", FALSE)]
    /\ hp_now = 0
    /\ hp_started = [v \in Venues |-> NoCheck]
    /\ hp_call = HpCall("none", "none", "none", NoCheck)

\* BEGIN parked
ServicesParkedExcept(own) ==
    /\ IF own = "ws" THEN TRUE ELSE InitWsSupervisor
    /\ IF own = "books" THEN TRUE ELSE InitOrderBooks
    /\ IF own = "broadcast" THEN TRUE ELSE InitBroadcast
    /\ IF own = "signal" THEN TRUE ELSE InitSpreadEngine
    /\ IF own = "row" THEN TRUE ELSE InitScanHistory
    /\ IF own = "cache" THEN TRUE ELSE InitScanCache
    /\ IF own = "ledger" THEN TRUE ELSE InitPositionManager
    /\ IF own = "reduce" THEN TRUE ELSE InitReducers
    /\ IF own = "probe" THEN TRUE ELSE InitHealthProbes

ServicesParked == ServicesParkedExcept("none")
\* END parked

Init ==
    /\ LoopRestInit
    /\ paradex = 0
    /\ grvt = 0
    /\ live_order_enabled \in BOOLEAN
    /\ PlannerParked
    /\ RuntimeParked
    /\ BucketParked
    /\ GuardsParked
    /\ ServicesParked

gateVars == <<stale, ws_ok, consistency_ok, health_ok>>
ledgerVars == <<paradex, grvt>>
counterVars == <<attempted, success, failed>>
engineVars == <<op, caller, requests, batches, hedge_qty, attempted, success, failed>>

(* The engine call awaited by loop step c returns rep; ev are the events   *)
(* emitted so far.  The loop resumes after the await and emits the event   *)
(* of the step: _emit_event appends to the in-memory queue, then writes to *)
(* the repository and the CSV log; a failing write raises out of the       *)
(* iteration into the loop's exception handler (pc = "error").             *)
Return(c, rep, ev) ==
    /\ report' = rep
    /\ op' = "idle"
    /\ caller' = "none"
    /\ requests' = <<>>
    /\ batches' = <<>>
    /\ hedge_qty' = 0
    /\ attempted' = 0
    /\ success' = 0
    /\ failed' = 0
    /\ IF c = "hard"
       THEN pc' = "signal" /\ events' = ev
       ELSE IF c = "rebal"
       THEN /\ pc' \in {"exec", "error"}
            /\ events' = Append(ev, Event("info", "rebalance"))
       ELSE IF rep.attempted_orders > 0
       THEN /\ pc' \in {"done", "error"}
            /\ events' = Append(ev, Event(IF rep.failed_orders > 0 THEN "warn" ELSE "info",
                                          rep.message))
       ELSE /\ pc' = "done"
            /\ events' = ev

(* variant: execute_rebalance without the live-order check *)
execute_rebalance_ungated(c, orders, ev) ==
    IF orders = <<>>
    THEN /\ Return(c, ExecutionReport("rebalance", 0, 0, 0, "rebalance_done"), ev)
    ELSE /\ op' = "rebalance"
         /\ caller' = c
         /\ requests' = orders
         /\ events' = ev
         /\ UNCHANGED <<pc, report, batches, hedge_qty, attempted, success, failed>>

(* execute_rebalance(orders) entered from loop step c *)
execute_rebalance(c, orders, ev) ==
    IF ~live_order_enabled
    THEN /\ Return(c, _order_blocked_report("rebalance"), ev)
    ELSE IF orders = <<>>
    THEN /\ Return(c, ExecutionReport("rebalance", 0, 0, 0, "rebalance_done"), ev)
    ELSE /\ op' = "rebalance"
         /\ caller' = c
         /\ requests' = orders
         /\ events' = ev
         /\ UNCHANGED <<pc, report, batches, hedge_qty, attempted, success, failed>>

(* flatten_symbol entered from loop step c *)
flatten_symbol(c, ev) ==
    IF ~live_order_enabled
    THEN Return(c, _order_blocked_report("rebalance"), ev)
    ELSE execute_rebalance(c, FlattenRequests(paradex, grvt), ev)

----------------------------------------------------------------------------
(* Symbol loop, steps 4..9 of one iteration *)

(* step 4: position sync is due; the ledger is overwritten by the venues'  *)
(* reported positions                                                      *)
PositionSync ==
    /\ pc = "sync"
    /\ op = "idle"
    /\ \E p \in PosPairs :
          /\ paradex' = p[1]
          /\ grvt' = p[2]
    /\ synced' = TRUE
    /\ close_run' = CloseRun(0, paradex', grvt')
    /\ pc' = "gates"
    /\ UNCHANGED <<submitted, live_order_enabled, mode, auxVars, tokens, gateVars, can_open,
                   signal, quote, engineVars, report, events, log, entry, calls>>

(* step 4, a venue's fetch_position raises: last_position_sync_ms is       *)
(* already set, the ledger is not touched                                  *)
PositionSyncFails ==
    /\ pc = "sync"
    /\ op = "idle"
    /\ synced' = TRUE
    /\ pc' = "error"
    /\ UNCHANGED <<submitted, ledgerVars, live_order_enabled, mode, auxVars, tokens, gateVars,
                   can_open, signal, quote, engineVars, report, events, log, entry,
                   close_run, calls>>

(* step 4 skipped: position_sync_ms has not elapsed (never on the first    *)
(* iteration, where last_position_sync_ms = 0)                             *)
SkipPositionSync ==
    /\ pc = "sync"
    /\ op = "idle"
    /\ synced
    /\ pc' = "gates"
    /\ UNCHANGED <<synced, submitted, ledgerVars, live_order_enabled, mode, auxVars, tokens, gateVars,
                   can_open, signal, quote, engineVars, report, events, log, entry, close_run, calls>>

(* step 5: the four gates are read from the guards *)
ComputeGates ==
    /\ pc = "gates"
    /\ op = "idle"
    /\ stale' \in BOOLEAN
    /\ ws_ok' \in BOOLEAN
    /\ consistency_ok' \in BOOLEAN
    /\ health_ok' \in BOOLEAN
    /\ pc' = "hard"
    /\ UNCHANGED <<synced, submitted, ledgerVars, live_order_enabled, mode, auxVars, tokens, can_open,
                   signal, quote, engineVars, report, events, log, entry, close_run, calls>>

(* step 6, hard limit breached: WARN event, then flatten *)
HardLimitFlatten ==
    /\ pc = "hard"
    /\ op = "idle"
    /\ is_hard_limit_breached(paradex, grvt, hard_limit)
    /\ calls' = Append(calls, "flatten")
    /\ entry' = Entry("flatten")
    /\ log' = <<>>
    /\ flatten_symbol("hard", Append(events, Event("warn", "hard_limit")))
    /\ UNCHANGED <<close_run, synced, submitted, ledgerVars, live_order_enabled, mode, auxVars, tokens, gateVars,
                   can_open, signal, quote>>

(* step 6, hard limit breached, and the write of the WARN event raises:    *)
(* flatten_symbol is not reached                                           *)
HardLimitEmitFails ==
    /\ pc = "hard"
    /\ op = "idle"
    /\ is_hard_limit_breached(paradex, grvt, hard_limit)
    /\ events' = Append(events, Event("warn", "hard_limit"))
    /\ pc' = "error"
    /\ UNCHANGED <<synced, submitted, ledgerVars, live_order_enabled, mode, auxVars, tokens, gateVars,
                   can_open, signal, quote, engineVars, report, log, entry, close_run, calls>>

(* step 6, no breach *)
HardLimitPass ==
    /\ pc = "hard"
    /\ op = "idle"
    /\ ~is_hard_limit_breached(paradex, grvt, hard_limit)
    /\ pc' = "signal"
    /\ UNCHANGED <<synced, submitted, ledgerVars, live_order_enabled, mode, auxVars, tokens, gateVars,
                   can_open, signal, quote, engineVars, report, events, log, entry, close_run, calls>>

(* step 7 with both effective quotes valid: metrics and signal *)
ComputeSignal ==
    /\ pc = "signal"
    /\ op = "idle"
    /\ can_open' = compute_can_open(stale, ws_ok, consistency_ok, health_ok)
    /\ \E q \in Quotes, edge \in EdgeVals, z \in ZVals :
          /\ quote' = q
          /\ signal' = generate_signal(edge, z, mode)
    /\ pc' = "rebal"
    /\ UNCHANGED <<synced, submitted, ledgerVars, live_order_enabled, mode, auxVars, tokens, gateVars,
                   engineVars, report, events, log, entry, close_run, calls>>

(* step 7 with an effective quote missing or invalid: synthetic HOLD *)
ComputeSignalNoBook ==
    /\ pc = "signal"
    /\ op = "idle"
    /\ can_open' = compute_can_open(stale, ws_ok, consistency_ok, health_ok)
    /\ quote' = NoQuote
    /\ signal' = HoldNoBook
    /\ pc' = "rebal"
    /\ UNCHANGED <<synced, submitted, ledgerVars, live_order_enabled, mode, auxVars, tokens, gateVars,
                   engineVars, report, events, log, entry, close_run, calls>>

(* step 8, ledger imbalanced: plan and execute the rebalance *)
Rebalance ==
    /\ pc = "rebal"
    /\ op = "idle"
    /\ is_imbalanced(paradex, grvt, net_guard)
    /\ LET ops == build_rebalance_orders(paradex, grvt, net_guard, base_order_qty)
       IN IF ops # <<>>
          THEN /\ calls' = Append(calls, "rebalance")
               /\ entry' = Entry("rebalance")
               /\ log' = <<>>
               /\ execute_rebalance("rebal", RebalanceRequests(ops), events)
          ELSE /\ pc' = "exec"
               /\ UNCHANGED <<engineVars, report, events, log, entry, calls>>
    /\ UNCHANGED <<close_run, synced, submitted, ledgerVars, live_order_enabled, mode, auxVars, tokens, gateVars,
                   can_open, signal, quote>>

(* step 8, ledger within the net guard *)
RebalancePass ==
    /\ pc = "rebal"
    /\ op = "idle"
    /\ ~is_imbalanced(paradex, grvt, net_guard)
    /\ pc' = "exec"
    /\ UNCHANGED <<synced, submitted, ledgerVars, live_order_enabled, mode, auxVars, tokens, gateVars,
                   can_open, signal, quote, engineVars, report, events, log, entry, close_run, calls>>

(* step 9: execute_signal up to its first await *)
ExecuteSignal ==
    /\ pc = "exec"
    /\ op = "idle"
    /\ calls' = Append(calls, signal.action)
    /\ entry' = Entry(signal.action)
    /\ log' = <<>>
    /\ LET br == execute_signal_branch(signal.action, live_order_enabled, can_open,
                                        position_can_open(paradex, grvt, max_position))
       IN
       IF br = "live_disabled"
       THEN Return("exec", _order_blocked_report(signal.action), events)
       ELSE IF br = "hold"
       THEN Return("exec", ExecutionReport("hold", 0, 0, 0, "hold"), events)
       ELSE IF br = "risk_blocked"
       THEN Return("exec", ExecutionReport("open", 0, 0, 1, "risk_blocked"), events)
       ELSE IF br = "max_position"
       THEN Return("exec", ExecutionReport("open", 0, 0, 1, "max_position"), events)
       ELSE IF br = "open"
       THEN IF signal.batches = <<>>
            THEN Return("exec", ExecutionReport("open", 0, 0, 0, "open_done"), events)
            ELSE /\ op' = "open_taker"
                 /\ caller' = "exec"
                 /\ batches' = signal.batches
                 /\ UNCHANGED <<pc, report, events, requests, hedge_qty,
                                attempted, success, failed>>
       ELSE IF br = "close"
       THEN execute_rebalance("exec", CloseRequests(paradex, grvt, signal), events)
       ELSE Return("exec", ExecutionReport(signal.action, 0, 0, 1, "unknown"), events)
    /\ UNCHANGED <<close_run, synced, submitted, ledgerVars, live_order_enabled, mode, auxVars, tokens, gateVars,
                   can_open, signal, quote>>

(* except Exception: the ERROR event is emitted, the loop sleeps and goes on *)
HandleException ==
    /\ pc = "error"
    /\ op = "idle"
    /\ events' = Append(events, Event("error", "loop_exception"))
    /\ pc' = "done"
    /\ UNCHANGED <<synced, submitted, ledgerVars, live_order_enabled, mode, auxVars, tokens, gateVars,
                   can_open, signal, quote, engineVars, report, log, entry, close_run, calls>>

(* except Exception: the write of the ERROR event raises as well; the       *)
(* exception leaves the handler and ends the symbol task                    *)
ExceptionEscapes ==
    /\ pc = "error"
    /\ op = "idle"
    /\ events' = Append(events, Event("error", "loop_exception"))
    /\ pc' = "crashed"
    /\ UNCHANGED <<synced, submitted, ledgerVars, live_order_enabled, mode, auxVars, tokens, gateVars,
                   can_open, signal, quote, engineVars, report, log, entry, close_run, calls>>

(* end of the iteration: snapshot, sleep, then the next iteration starts *)
NextIteration ==
    /\ pc = "done"
    /\ op = "idle"
    /\ pc' = "sync"
    /\ stale' = TRUE
    /\ ws_ok' = FALSE
    /\ consistency_ok' = FALSE
    /\ health_ok' = FALSE
    /\ can_open' = FALSE
    /\ signal' = HoldNoBook
    /\ quote' = NoQuote
    /\ report' = NoReport
    /\ events' = <<>>
    /\ log' = <<>>
    /\ entry' = NoEntry
    /\ calls' = <<>>
    /\ UNCHANGED <<close_run, synced, submitted, ledgerVars, live_order_enabled, mode, auxVars, tokens, engineVars>>

----------------------------------------------------------------------------
(* ExecutionEngine coroutines, one step per submitted order *)

(* execute_rebalance: one pass of the loop over the requests *)
SubmitRebalanceOrder ==
    /\ submitted < MaxOrders
    /\ submitted' = submitted + 1
    /\ op = "rebalance"
    /\ requests # <<>>
    /\ LET req == Head(requests) IN
       \E o \in SubmitOutcomes(req, tokens[req.exchange]) :
          LET ok == o.ack.success /\ o.ack.filled > 0
              pos == IF ok
                     THEN apply_fill(paradex, grvt, req.exchange, req.side, o.ack.filled)
                     ELSE <<paradex, grvt>>
              suc == IF ok THEN success + 1 ELSE success
              fl == IF ok THEN failed ELSE failed + 1
          IN /\ tokens' = [tokens EXCEPT ![req.exchange] = o.tok]
             /\ paradex' = pos[1]
             /\ grvt' = pos[2]
             /\ log' = Append(log, LogEntry(req, o.ack, <<paradex, grvt>>, pos))
             /\ close_run' =
                   IF entry.kind # "close" THEN CloseRun(0, pos[1], pos[2])
                   ELSE IF Tail(requests) # <<>> THEN close_run
                   ELSE IF FullyFilled(log')
                   THEN CloseRun(close_run.k + 1, close_run.paradex, close_run.grvt)
                   ELSE CloseRun(0, pos[1], pos[2])
             /\ IF Tail(requests) = <<>>
                THEN Return(caller,
                            ExecutionReport("rebalance", attempted + 1, suc, fl,
                                            "rebalance_done"),
                            events)
                ELSE /\ requests' = Tail(requests)
                     /\ attempted' = attempted + 1
                     /\ success' = suc
                     /\ failed' = fl
                     /\ UNCHANGED <<pc, op, caller, batches, hedge_qty, report, events>>
    /\ UNCHANGED <<synced, live_order_enabled, mode, auxVars, gateVars, can_open, signal,
                   quote, entry, calls>>

(* _open_batches: Venue-A taker order of the next batch *)
OpenTaker ==
    /\ submitted < MaxOrders
    /\ submitted' = submitted + 1
    /\ op = "open_taker"
    /\ batches # <<>>
    /\ LET req == TakerRequest(signal.direction, Head(batches)) IN
       \E o \in SubmitOutcomes(req, tokens[req.exchange]) :
          LET ok == ~(~o.ack.success \/ o.ack.filled <= 0)
              pos == IF ok
                     THEN apply_fill(paradex, grvt, req.exchange, req.side, o.ack.filled)
                     ELSE <<paradex, grvt>>
          IN /\ tokens' = [tokens EXCEPT ![req.exchange] = o.tok]
             /\ paradex' = pos[1]
             /\ grvt' = pos[2]
             /\ log' = Append(log, LogEntry(req, o.ack, <<paradex, grvt>>, pos))
             /\ close_run' = CloseRun(0, pos[1], pos[2])
             /\ IF ok
                THEN /\ op' = "open_hedge"
                     /\ hedge_qty' = o.ack.filled
                     /\ attempted' = attempted + 1
                     /\ success' = success + 1
                     /\ UNCHANGED <<pc, caller, requests, batches, failed, report, events>>
                ELSE IF Tail(batches) = <<>>
                THEN Return(caller,
                            ExecutionReport("open", attempted + 1, success, failed + 1,
                                            "open_done"),
                            events)
                ELSE /\ batches' = Tail(batches)
                     /\ attempted' = attempted + 1
                     /\ failed' = failed + 1
                     /\ UNCHANGED <<pc, op, caller, requests, hedge_qty, success,
                                    report, events>>
    /\ UNCHANGED <<synced, live_order_enabled, mode, auxVars, gateVars, can_open, signal,
                   quote, entry, calls>>

(* _open_batches: Venue-B hedge order of the current batch *)
OpenHedge ==
    /\ submitted < MaxOrders
    /\ submitted' = submitted + 1
    /\ op = "open_hedge"
    /\ LET req == HedgeRequest(signal.direction, hedge_qty, quote) IN
       \E o \in SubmitOutcomes(req, tokens[req.exchange]) :
          LET ok == ~(~o.ack.success \/ o.ack.filled <= 0)
              pos == IF ok
                     THEN apply_fill(paradex, grvt, req.exchange, req.side, o.ack.filled)
                     ELSE <<paradex, grvt>>
              suc == IF ok THEN success + 1 ELSE success
              fl == IF ok THEN failed ELSE failed + 1
          IN /\ tokens' = [tokens EXCEPT ![req.exchange] = o.tok]
             /\ paradex' = pos[1]
             /\ grvt' = pos[2]
             /\ log' = Append(log, LogEntry(req, o.ack, <<paradex, grvt>>, pos))
             /\ close_run' = CloseRun(0, pos[1], pos[2])
             /\ IF Tail(batches) = <<>>
                THEN Return(caller,
                            ExecutionReport("open", attempted + 1, suc, fl, "open_done"),
                            events)
                ELSE /\ op' = "open_taker"
                     /\ batches' = Tail(batches)
                     /\ hedge_qty' = 0
                     /\ attempted' = attempted + 1
                     /\ success' = suc
                     /\ failed' = fl
                     /\ UNCHANGED <<pc, caller, requests, report, events>>
    /\ UNCHANGED <<synced, live_order_enabled, mode, auxVars, gateVars, can_open, signal,
                   quote, entry, calls>>

(* operator switches live orders off while the engine runs *)
DisableLiveOrder ==
    /\ live_order_enabled
    /\ live_order_enabled' = FALSE
    /\ UNCHANGED <<pc, synced, submitted, ledgerVars, mode, auxVars, tokens, gateVars, can_open, signal,
                   quote, engineVars, report, events, log, entry, close_run, calls>>

Next ==
    \/ PositionSync
    \/ PositionSyncFails
    \/ SkipPositionSync
    \/ ComputeGates
    \/ HardLimitFlatten
    \/ HardLimitEmitFails
    \/ HardLimitPass
    \/ ComputeSignal
    \/ ComputeSignalNoBook
    \/ Rebalance
    \/ RebalancePass
    \/ ExecuteSignal
    \/ HandleException
    \/ ExceptionEscapes
    \/ NextIteration
    \/ SubmitRebalanceOrder
    \/ OpenTaker
    \/ OpenHedge
    \/ DisableLiveOrder

Spec == Init /\ [][Next]_vars

TypeOK ==
    /\ pc \in {"sync", "gates", "hard", "signal", "rebal", "exec", "done",
              "error", "crashed"}
    /\ op \in {"idle", "rebalance", "open_taker", "open_hedge"}
    /\ tokens \in [Venues -> 0..OrderCap]
    /\ submitted \in 0..MaxOrders

----------------------------------------------------------------------------
(* Vocabulary of the properties, stated over the history variables *)

GatesBad == stale \/ ~ws_ok \/ ~consistency_ok \/ ~health_ok

EngineKinds == {"open", "close", "rebalance", "flatten"}

LogRequests == [i \in 1..Len(log) |-> log[i].req]

(* orders of the latest engine call: already submitted, then still queued *)
AllRequests == LogRequests \o requests

Filled(e) == e.success /\ e.filled > 0

SignedQty(side, qty) == IF side = "buy" THEN qty ELSE -qty

ReduceOnlyMarket(v, leg, qty) ==
    [exchange |-> v, side |-> IF leg > 0 THEN "sell" ELSE "buy", quantity |-> qty,
     order_type |-> "market", reduce_only |-> TRUE]

OrderCore(r) ==
    [exchange |-> r.exchange, side |-> r.side, quantity |-> r.quantity,
     order_type |-> r.order_type, reduce_only |-> r.reduce_only]

(* one reduce-only market order per non-zero leg, quantities qa and qb *)
ExpectedReduceOrders(a, b, qa, qb) ==
    (IF a # 0 THEN {ReduceOnlyMarket("paradex", a, qa)} ELSE {})
      \cup (IF b # 0 THEN {ReduceOnlyMarket("grvt", b, qb)} ELSE {})

SubmitsExactly(expected) ==
    /\ {OrderCore(AllRequests[i]) : i \in 1..Len(AllRequests)} = expected
    /\ Len(AllRequests) = Cardinality(expected)
    /\ op = "idle" => Len(log) = Cardinality(expected)

Count(P(_)) == Cardinality({i \in 1..Len(log) : P(log[i])})

----------------------------------------------------------------------------
(* C1: when any of the four gates is bad at gate-computation time (data     *)
(* stale, WebSocket not ok, consistency not ok, health not ok), no          *)
(* OPEN-path order, neither the Venue-A taker nor the Venue-B hedge, is     *)
(* submitted during that iteration.                                         *)
C1_NoOpenOrderWhenGated ==
    GatesBad =>
        /\ op \notin {"open_taker", "open_hedge"}
        /\ \A i \in 1..Len(log) :
              /\ log[i].req.tag \notin {"open-taker", "open-hedge"}
              /\ log[i].req.reduce_only

C1_Witness ==
    /\ GatesBad
    /\ pc = "done"
    /\ entry.kind = "open"
    /\ entry.live
    /\ signal.batches # <<>>
    /\ report.failed_orders = 1
    /\ log = <<>>

(* C2: while live_order_enabled is false, every OPEN, CLOSE, REBALANCE or   *)
(* FLATTEN request returns at once a report with attempted = success =      *)
(* failed = 0 and the live-disabled message, submits no order, debits no    *)
(* limiter token and leaves the position ledger unchanged.                  *)
C2_LiveDisabledBlocksOrders ==
    /\ [][(~live_order_enabled /\ calls' # calls /\ entry'.kind \in EngineKinds) =>
            /\ report'.attempted_orders = 0
            /\ report'.success_orders = 0
            /\ report'.failed_orders = 0
            /\ report'.message = "live_disabled"
            /\ op' = "idle"
            /\ log' = <<>>
            /\ tokens' = tokens
            /\ submitted' = submitted
            /\ paradex' = paradex
            /\ grvt' = grvt]_vars
    /\ []((entry.kind \in EngineKinds /\ ~entry.live) =>
            /\ log = <<>>
            /\ op = "idle"
            /\ paradex = entry.paradex
            /\ grvt = entry.grvt)

C2_Witness ==
    /\ calls = <<"flatten", "rebalance", "close">>
    /\ ~entry.live
    /\ entry.paradex # 0
    /\ report.message = "live_disabled"
    /\ report.attempted_orders = 0
    /\ tokens = [v \in Venues |-> OrderCap]

(* C3: in every iteration where |net_exposure| exceeds the hard limit       *)
(* (3.0 x base_order_qty) at step 6, a WARN event is emitted and flatten is *)
(* invoked in that same iteration, before any rebalance and before signal   *)
(* execution, whatever the four gates are.                                  *)
C3_HardLimitFlattensFirst ==
    /\ [][(/\ pc = "hard"
           /\ op = "idle"
           /\ Abs(paradex + grvt) > 3 * base_order_qty
           /\ (pc' # pc \/ op' # op)) =>
            /\ calls = <<>>
            /\ calls' = <<"flatten">>
            /\ entry'.kind = "flatten"
            /\ \E i \in 1..Len(events') : events'[i].level = "warn"]_vars
    /\ [](\A i \in 1..Len(calls) :
            /\ calls[i] = "flatten" => i = 1
            /\ calls[i] = "rebalance" => \A j \in 1..(i - 1) : calls[j] = "flatten")

(* C4: with live orders enabled, CLOSE and FLATTEN still submit a           *)
(* reduce-only order for every non-zero leg when the open gate is false;    *)
(* the risk gate stops OPEN only.                                           *)
C4_CloseAndFlattenIgnoreRiskGate ==
    (entry.kind \in {"close", "flatten"} /\ entry.live /\ GatesBad) =>
        /\ \A i \in 1..Len(AllRequests) : AllRequests[i].reduce_only
        /\ entry.paradex # 0 =>
              \E i \in 1..Len(AllRequests) : AllRequests[i].exchange = "paradex"
        /\ entry.grvt # 0 =>
              \E i \in 1..Len(AllRequests) : AllRequests[i].exchange = "grvt"
        /\ op = "idle" => requests = <<>>

C4_Witness ==
    /\ GatesBad
    /\ ~can_open
    /\ entry.kind = "close"
    /\ entry.live
    /\ entry.paradex # 0
    /\ entry.grvt # 0
    /\ op = "idle"
    /\ Len(log) = 2
    /\ \A i \in 1..2 : log[i].placed /\ log[i].req.reduce_only

(* C5: OPEN executes the batches strictly in order.  For a batch of         *)
(* quantity q one market order of quantity q goes to Venue-A (BUY for       *)
(* LONG_A_SHORT_B, SELL for LONG_B_SHORT_A); only after it has returned     *)
(* with filled quantity f > 0 one post-only limit order goes to Venue-B, on *)
(* the opposite side, of quantity exactly f, priced at the Venue-B best bid *)
(* for a BUY hedge and best ask for a SELL hedge; a taker that fails or     *)
(* fills nothing has no hedge; the next taker follows the previous hedge.   *)
TakerSide(direction) == IF direction = "long_grvt_short_paradex" THEN "sell" ELSE "buy"

HedgeSide(direction) == IF direction = "long_grvt_short_paradex" THEN "buy" ELSE "sell"

TakersUpTo(i) == Cardinality({j \in 1..i : log[j].req.exchange = "paradex"})

C5_OpenTwoLegProtocol ==
    entry.kind = "open" =>
        /\ \A i \in 1..Len(log) :
              LET e == log[i] IN
              IF e.req.exchange = "paradex"
              THEN /\ TakersUpTo(i) <= Len(signal.batches)
                   /\ e.req.quantity = signal.batches[TakersUpTo(i)]
                   /\ e.req.order_type = "market"
                   /\ e.req.side = TakerSide(signal.direction)
                   /\ ~e.req.reduce_only
                   /\ (i > 1 /\ log[i - 1].req.exchange = "paradex") => ~Filled(log[i - 1])
                   /\ Filled(e) =>
                         IF i < Len(log) THEN log[i + 1].req.exchange = "grvt"
                         ELSE op = "open_hedge" /\ hedge_qty = e.filled
                   /\ (~Filled(e) /\ i = Len(log)) => op \in {"open_taker", "idle"}
              ELSE /\ i > 1
                   /\ log[i - 1].req.exchange = "paradex"
                   /\ Filled(log[i - 1])
                   /\ e.req.exchange = "grvt"
                   /\ e.req.quantity = log[i - 1].filled
                   /\ e.req.side = HedgeSide(signal.direction)
                   /\ e.req.order_type = "limit"
                   /\ e.req.post_only
                   /\ ~e.req.reduce_only
                   /\ e.req.price = IF e.req.side = "buy" THEN quote.bid ELSE quote.ask
        /\ (op = "idle" /\ log # <<>>) => TakersUpTo(Len(log)) = Len(signal.batches)
        /\ op = "open_taker" => TakersUpTo(Len(log)) + Len(batches) = Len(signal.batches)

C5_Witness ==
    /\ entry.kind = "open"
    /\ op = "idle"
    /\ Len(signal.batches) = 2
    /\ Len(log) = 4
    /\ log[1].filled < log[1].req.quantity
    /\ log[2].req.quantity = log[1].filled
    /\ log[3].req.exchange = "paradex"
    /\ log[4].req.exchange = "grvt"

(* C6 (as the code has it): a hedge fill is recorded on the Venue-B leg     *)
(* only when the hedge order is acknowledged successful with a filled       *)
(* quantity g > 0, and then with quantity g on the side opposite the taker; *)
(* after execute_signal(OPEN) net_exposure differs from its value before    *)
(* by the signed sum of the taker fills minus the hedge fills, and equals   *)
(* it when every hedge filled its taker's quantity in full.                 *)
RECURSIVE SumFills(_, _)
SumFills(l, v) ==
    IF l = <<>> THEN 0
    ELSE (IF Head(l).req.exchange = v /\ Filled(Head(l))
          THEN SignedQty(Head(l).req.side, Head(l).filled) ELSE 0)
         + SumFills(Tail(l), v)

EveryHedgeFull ==
    \A i \in 1..Len(log) :
        (log[i].req.exchange = "paradex" /\ Filled(log[i])) =>
            /\ i < Len(log)
            /\ Filled(log[i + 1])
            /\ log[i + 1].filled = log[i].filled

C6_HedgeFillAsAcknowledged ==
    entry.kind = "open" =>
        /\ \A i \in 1..Len(log) :
              LET e == log[i] IN
              e.req.exchange = "grvt" =>
                 /\ e.after[1] = e.before[1]
                 /\ e.after[2] - e.before[2] =
                       IF Filled(e) THEN SignedQty(e.req.side, e.filled) ELSE 0
        /\ paradex = entry.paradex + SumFills(log, "paradex")
        /\ grvt = entry.grvt + SumFills(log, "grvt")
        /\ (op = "idle" /\ EveryHedgeFull) => paradex + grvt = entry.paradex + entry.grvt

C6_Witness ==
    /\ entry.kind = "open"
    /\ op = "idle"
    /\ Len(log) = 3
    /\ Filled(log[1])
    /\ log[2].placed /\ log[2].success /\ log[2].raw = 0
    /\ ~Filled(log[3])
    /\ grvt = entry.grvt
    /\ paradex + grvt # entry.paradex + entry.grvt

(* C6 as stated: for every OPEN batch whose taker filled f > 0 a hedge fill *)
(* of f is recorded on Venue-B, so that net_exposure after                  *)
(* execute_signal(OPEN) equals net_exposure before.                         *)
C6_Original ==
    (entry.kind = "open" /\ op = "idle") =>
        paradex + grvt = entry.paradex + entry.grvt

(* C7 (as the code has it): place_order is called only after the limiter    *)
(* granted a token for the venue; when the acquire fails place_order is not *)
(* called, no fill enters the ledger, the order is counted once in          *)
(* attempted_orders and once in failed_orders, and it is not submitted      *)
(* again within that call.                                                  *)
Denied(e) == ~e.allowed

Placed(e) == e.placed

NotFilled(e) == ~Filled(e)

C7_RateLimitedOrderFails ==
    /\ \A i \in 1..Len(log) :
          LET e == log[i] IN
          /\ e.placed => e.allowed
          /\ ~e.allowed =>
                /\ ~e.placed
                /\ ~e.success
                /\ e.after = e.before
                /\ i < Len(log) => log[i + 1].req # e.req
    /\ (op = "idle" /\ entry.kind \in EngineKinds /\ log # <<>>) =>
          /\ report.attempted_orders = Len(log)
          /\ report.failed_orders = Count(NotFilled)
          /\ report.failed_orders >= Count(Denied)
          /\ report.success_orders + report.failed_orders = report.attempted_orders

C7_Witness ==
    /\ op = "idle"
    /\ entry.kind \in {"rebalance", "close", "flatten"}
    /\ Len(log) = 1
    /\ ~log[1].allowed
    /\ ~log[1].placed
    /\ report.attempted_orders = 1
    /\ report.failed_orders = 1
    /\ paradex = entry.paradex /\ grvt = entry.grvt

(* C7 as stated: a rate-limited order is not attempted: place_order is not  *)
(* called and the order does not count in attempted_orders, while it counts *)
(* as one failed order.                                                     *)
C7_Original ==
    /\ \A i \in 1..Len(log) : log[i].placed <=> log[i].allowed
    /\ (op = "idle" /\ entry.kind \in EngineKinds /\ log # <<>>) =>
          /\ report.attempted_orders = Count(Placed)
          /\ report.failed_orders >= Count(Denied)

(* C8: a market order acknowledged as successful with reported filled       *)
(* quantity 0 is treated as filled for its requested quantity: the ledger   *)
(* moves by the full quantity and the order counts as a success; a limit    *)
(* order acknowledged with filled quantity 0 stays at 0.                    *)
CountsAsSuccess(e) ==
    e.placed /\ e.success /\ (e.raw > 0 \/ e.req.order_type = "market")

LegOf(pos, v) == IF v = "paradex" THEN pos[1] ELSE pos[2]

C8_MarketFillNormalisation ==
    /\ \A i \in 1..Len(log) :
          LET e == log[i] IN
          (e.placed /\ e.success /\ e.raw <= 0) =>
             IF e.req.order_type = "market"
             THEN /\ e.filled = e.req.quantity
                  /\ LegOf(e.after, e.req.exchange) - LegOf(e.before, e.req.exchange)
                        = SignedQty(e.req.side, e.req.quantity)
             ELSE /\ e.filled = 0
                  /\ e.after = e.before
    /\ (op = "idle" /\ entry.kind \in EngineKinds /\ log # <<>>) =>
          report.success_orders = Count(CountsAsSuccess)

C8_Witness ==
    /\ op = "idle"
    /\ entry.kind = "open"
    /\ Len(log) = 3
    /\ ~Filled(log[3])
    /\ log[1].success /\ log[1].raw = 0 /\ log[1].req.order_type = "market"
    /\ log[2].success /\ log[2].raw = 0 /\ log[2].req.order_type = "limit"
    /\ log[2].req.quantity = log[1].req.quantity
    /\ report.success_orders = 1

(* C9: CLOSE with close quantity c (the sum of the signal's batches, or     *)
(* base_order_qty without batches) submits, for each non-zero leg and for   *)
(* no other, exactly one reduce-only market order on the side opposite the  *)
(* leg's sign, of quantity min(|leg|, c); it never increases |leg| and      *)
(* never flips a leg's sign; k fully filled CLOSE executions leave          *)
(* |leg| = max(0, |leg_initial| - k*c).                                     *)
ClaimCloseQty ==
    IF signal.batches # <<>> THEN SumSeq(signal.batches) ELSE base_order_qty

Max0(x) == IF x > 0 THEN x ELSE 0

C9_CloseReducesByCloseQty ==
    /\ (entry.kind = "close" /\ entry.live) =>
          /\ SubmitsExactly(ExpectedReduceOrders(entry.paradex, entry.grvt,
                                  Min(Abs(entry.paradex), ClaimCloseQty),
                                  Min(Abs(entry.grvt), ClaimCloseQty)))
          /\ Abs(paradex) <= Abs(entry.paradex)
          /\ Abs(grvt) <= Abs(entry.grvt)
          /\ paradex * entry.paradex >= 0
          /\ grvt * entry.grvt >= 0
    /\ (op = "idle" /\ close_run.k >= 1) =>
          /\ Abs(paradex) = Max0(Abs(close_run.paradex) - close_run.k * base_order_qty)
          /\ Abs(grvt) = Max0(Abs(close_run.grvt) - close_run.k * base_order_qty)

C9_Witness ==
    /\ op = "idle"
    /\ entry.kind = "close"
    /\ close_run.k = 2
    /\ Abs(close_run.paradex) > 2 * base_order_qty
    /\ Abs(paradex) = Abs(close_run.paradex) - 2 * base_order_qty
    /\ Len(log) = 2

(* C10: FLATTEN with live orders enabled submits, for each non-zero leg and *)
(* for no zero leg, one reduce-only market order on the side opposite the   *)
(* leg's sign of quantity |leg|; when all of them fill in full both legs    *)
(* are exactly zero (leg_A = +0.01, leg_B = 0: a single reduce-only SELL of *)
(* 0.01 on Venue-A).                                                        *)
C10_FlattenClosesEveryLeg ==
    (entry.kind = "flatten" /\ entry.live) =>
        /\ SubmitsExactly(ExpectedReduceOrders(entry.paradex, entry.grvt,
                                Abs(entry.paradex), Abs(entry.grvt)))
        /\ (op = "idle" /\ FullyFilled(log)) => (paradex = 0 /\ grvt = 0)

C10_Witness ==
    /\ entry.kind = "flatten"
    /\ entry.live
    /\ entry.paradex = 100
    /\ entry.grvt = 0
    /\ op = "idle"
    /\ Len(log) = 1
    /\ log[1].req.exchange = "paradex"
    /\ log[1].req.side = "sell"
    /\ log[1].req.quantity = 100
    /\ log[1].req.reduce_only
    /\ paradex = 0
    /\ grvt = 0

(* C15: an exception raised inside an iteration of the symbol loop, also   *)
(* a persistence failure while the ERROR event itself is being recorded,   *)
(* is caught, an ERROR event is emitted and the loop goes on to its next   *)
(* iteration; the symbol task ends only by cancellation, which this        *)
(* specification never delivers.                                           *)
C15_LoopSurvivesExceptions ==
    /\ [][pc = "error" =>
            /\ pc' = "done"
            /\ events' = Append(events, Event("error", "loop_exception"))]_vars
    /\ [](pc # "crashed")

----------------------------------------------------------------------------
(* Rebalance planner on its own: PositionManager.build_rebalance_orders is *)
(* applied to every ledger of a grid, with the tolerance and base quantity *)
(* the orchestrator passes (net_guard, base_order_qty) and with others,    *)
(* and its orders are then booked as full fills.                           *)

PlannerLegs == (-MaxLeg)..MaxLeg
PlannerTolerances == {0, net_guard}
PlannerBases == {0, 4, base_order_qty}

RECURSIVE ApplyOrders(_, _, _)
ApplyOrders(a, b, orders) ==
    IF orders = <<>> THEN <<a, b>>
    ELSE LET o == Head(orders)
             l == apply_fill(a, b, o.exchange, o.side, o.quantity)
         IN ApplyOrders(l[1], l[2], Tail(orders))

InitPlanner ==
    /\ LoopRestInit
    /\ live_order_enabled = FALSE
    /\ paradex \in PlannerLegs
    /\ grvt \in PlannerLegs
    /\ pl_pc = "input"
    /\ pl_tolerance \in PlannerTolerances
    /\ pl_base_qty \in PlannerBases
    /\ plan = <<>>
    /\ pl_before = <<paradex, grvt>>
    /\ RuntimeParked
    /\ BucketParked
    /\ GuardsParked
    /\ ServicesParked

(* orders = build_rebalance_orders(symbol, tolerance, base_qty) *)
PlanRebalance ==
    /\ pl_pc = "input"
    /\ plan' = build_rebalance_orders(paradex, grvt, pl_tolerance, pl_base_qty)
    /\ pl_before' = <<paradex, grvt>>
    /\ pl_pc' = "planned"
    /\ UNCHANGED <<loopVars, pl_tolerance, pl_base_qty, exceptPlanner>>

(* every planned order fills in full and is booked with apply_fill *)
ApplyPlan ==
    /\ pl_pc = "planned"
    /\ plan # <<>>
    /\ LET l == ApplyOrders(paradex, grvt, plan)
       IN /\ paradex' = l[1]
          /\ grvt' = l[2]
    /\ pl_pc' = "applied"
    /\ UNCHANGED <<loopRestVars, live_order_enabled, pl_tolerance, pl_base_qty,
                   plan, pl_before, exceptPlanner>>

(* the next iteration plans again from the ledger as it now is *)
PlanAgain ==
    /\ pl_pc = "applied"
    /\ pl_pc' = "input"
    /\ UNCHANGED <<loopVars, pl_tolerance, pl_base_qty, plan, pl_before, exceptPlanner>>

NextPlanner ==
    \/ PlanRebalance
    \/ ApplyPlan
    \/ PlanAgain

SpecPlanner == InitPlanner /\ [][NextPlanner]_vars

(* Vocabulary of the planner properties *)

PlNet == pl_before[1] + pl_before[2]
PlLeg(venue) == IF venue = "paradex" THEN pl_before[1] ELSE pl_before[2]
PlLegNow(venue) == IF venue = "paradex" THEN paradex ELSE grvt
PlAbs(x) == IF x < 0 THEN 0 - x ELSE x
PlSmaller(x, y) == IF x < y THEN x ELSE y

(* C11: when |net| > tolerance and base_qty > 0 the planner returns        *)
(* exactly one order of quantity min(|net|, base_qty): a SELL on the leg   *)
(* with the larger signed position when net > 0, a BUY on the leg with the *)
(* smaller signed position when net < 0, Venue-A on a tie; booking the     *)
(* order as a fill strictly decreases |net| and does not change the sign   *)
(* of net; when |net| <= tolerance the planner returns no order.           *)
C11_PlannerSingleShrinkingOrder ==
    pl_pc # "input" =>
        IF PlAbs(PlNet) <= pl_tolerance
        THEN plan = <<>>
        ELSE pl_base_qty > 0 =>
             /\ Len(plan) = 1
             /\ plan[1].quantity = PlSmaller(PlAbs(PlNet), pl_base_qty)
             /\ PlNet > 0 =>
                   /\ plan[1].side = "sell"
                   /\ plan[1].exchange =
                        (IF pl_before[1] >= pl_before[2] THEN "paradex" ELSE "grvt")
             /\ PlNet < 0 =>
                   /\ plan[1].side = "buy"
                   /\ plan[1].exchange =
                        (IF pl_before[1] <= pl_before[2] THEN "paradex" ELSE "grvt")
             /\ pl_pc = "applied" =>
                   /\ PlAbs(paradex + grvt) < PlAbs(PlNet)
                   /\ PlNet > 0 => paradex + grvt >= 0
                   /\ PlNet < 0 => paradex + grvt <= 0

(* a tie with net > 0 was planned and booked *)
C11_Witness ==
    /\ pl_pc = "applied"
    /\ pl_before[1] = pl_before[2]
    /\ PlNet > pl_base_qty
    /\ pl_base_qty > 0
    /\ Len(plan) = 1

(* C12: every order the planner emits with tolerance = net_guard and       *)
(* base_qty = base_order_qty is reduce-only for its leg: its side is       *)
(* opposite to the sign of the leg and its quantity is at most the size of *)
(* the leg, so booking it neither grows nor flips the leg.                 *)
C12_PlannerOrdersReduceOnly ==
    (pl_pc # "input" /\ pl_tolerance = net_guard /\ pl_base_qty = base_order_qty) =>
        \A i \in 1..Len(plan) :
            /\ plan[i].side = (IF PlLeg(plan[i].exchange) > 0 THEN "sell" ELSE "buy")
            /\ PlLeg(plan[i].exchange) # 0
            /\ plan[i].quantity <= PlAbs(PlLeg(plan[i].exchange))
            /\ pl_pc = "applied" =>
                  /\ PlAbs(PlLegNow(plan[i].exchange)) <= PlAbs(PlLeg(plan[i].exchange))
                  /\ PlLegNow(plan[i].exchange) * PlLeg(plan[i].exchange) >= 0

----------------------------------------------------------------------------
(* Control plane of ArbitrageOrchestrator: start, stop, shutdown and the   *)
(* two runtime switches.  start, stop and the switches run under           *)
(* _status_lock; shutdown reads engine_status outside the lock.  An event  *)
(* write of _emit_event (repository, CSV log) may raise, and so may a      *)
(* venue's connect or Venue-A's disconnect.  The application calls         *)
(* shutdown when it exits; no control call is started after that.          *)

RtSnapshot ==
    RtFlags(config_live, simulated_market_data, live_order_enabled, simulate_market_data)

ApiOpen == status_lock = "free" /\ shutdown_pc = "idle" /\ shutdowns = 0

InitRuntime ==
    /\ LoopRestInit
    /\ paradex = 0
    /\ grvt = 0
    /\ PlannerParked
    /\ BucketParked
    /\ GuardsParked
    /\ ServicesParked
    /\ config_live \in BOOLEAN
    /\ live_order_enabled = config_live
    /\ simulated_market_data \in BOOLEAN
    /\ RuntimeRestInit

(* variant: live orders may be switched on in any engine status *)
set_live_order_enabled_branch_any_status(enabled, current, simulated, status) ==
    IF enabled = current THEN "unchanged"
    ELSE IF enabled /\ simulated THEN "rejected_simulated"
    ELSE "applied"

(* set_live_order_enabled: the branch the call takes *)
set_live_order_enabled_branch(enabled, current, simulated, status) ==
    IF enabled = current THEN "unchanged"
    ELSE IF enabled /\ simulated THEN "rejected_simulated"
    ELSE IF enabled /\ status # "stopped" THEN "rejected_not_stopped"
    ELSE "applied"

(* set_live_order_enabled(enabled); the event is written after the flags   *)
SetLiveOrderEnabled ==
    /\ ApiOpen
    /\ \E enabled \in BOOLEAN :
          LET br == set_live_order_enabled_branch(enabled, config_live,
                                                  simulated_market_data, engine_status)
          IN IF br = "applied"
             THEN /\ config_live' = enabled
                  /\ live_order_enabled' = enabled
                  /\ \E k \in {"true", "raised"} :
                        rt_call' = RtCall("set_live_order_enabled", enabled, k,
                                          engine_status)
             ELSE /\ UNCHANGED <<config_live, live_order_enabled>>
                  /\ rt_call' = RtCall("set_live_order_enabled", enabled,
                                       IF br = "unchanged" THEN "true" ELSE "false",
                                       engine_status)
    /\ rt_before' = RtSnapshot
    /\ UNCHANGED <<loopRestVars, ledgerVars, exceptRuntime, engine_status,
                   simulated_market_data, simulate_market_data, connected, tasks,
                   orphan_tasks, status_lock, stop_caller, shutdown_pc, shutdowns,
                   repository_closed, late_write>>

(* set_simulated_market_data(enabled) *)
SetSimulatedMarketData ==
    /\ ApiOpen
    /\ \E enabled \in BOOLEAN :
          IF engine_status # "stopped"
          THEN /\ rt_call' = RtCall("set_simulated_market_data", enabled, "false",
                                    engine_status)
               /\ UNCHANGED <<config_live, live_order_enabled, simulated_market_data,
                              simulate_market_data>>
          ELSE /\ simulated_market_data' = enabled
               /\ simulate_market_data' = [v \in Venues |-> enabled]
               /\ IF enabled /\ config_live
                  THEN config_live' = FALSE /\ live_order_enabled' = FALSE
                  ELSE UNCHANGED <<config_live, live_order_enabled>>
               /\ \E k \in {"true", "raised"} :
                     rt_call' = RtCall("set_simulated_market_data", enabled, k,
                                       engine_status)
    /\ rt_before' = RtSnapshot
    /\ UNCHANGED <<loopRestVars, ledgerVars, exceptRuntime, engine_status, connected,
                   tasks, orphan_tasks, status_lock, stop_caller, shutdown_pc,
                   shutdowns, repository_closed, late_write>>

(* start() while STARTING or RUNNING *)
StartRejected ==
    /\ ApiOpen
    /\ engine_status \in {"starting", "running"}
    /\ rt_call' = RtCall("start", FALSE, "false", engine_status)
    /\ rt_before' = RtSnapshot
    /\ UNCHANGED <<loopVars, exceptRuntime, engine_status, config_live,
                   simulated_market_data, simulate_market_data, connected, tasks,
                   orphan_tasks, status_lock, stop_caller, shutdown_pc, shutdowns,
                   repository_closed, late_write>>

(* start() with live orders on simulated market data: the status goes back *)
(* to STOPPED and an ERROR event is emitted inside the try block; when the *)
(* event write raises, the except branch sets the status to ERROR.         *)
StartRefused ==
    /\ ApiOpen
    /\ engine_status \notin {"starting", "running"}
    /\ simulated_market_data /\ config_live
    /\ \E raised \in BOOLEAN :
          /\ engine_status' = (IF raised THEN "error" ELSE "stopped")
          /\ rt_call' = RtCall("start", FALSE, "false", engine_status)
    /\ rt_before' = RtSnapshot
    /\ UNCHANGED <<loopVars, exceptRuntime, config_live, simulated_market_data,
                   simulate_market_data, connected, tasks, orphan_tasks, status_lock,
                   stop_caller, shutdown_pc, shutdowns, repository_closed, late_write>>

(* start(): the status becomes STARTING and the adapters are connecting *)
StartBegin ==
    /\ ApiOpen
    /\ engine_status \notin {"starting", "running"}
    /\ ~(simulated_market_data /\ config_live)
    /\ engine_status' = "starting"
    /\ status_lock' = "start"
    /\ rt_call' = RtCall("start", FALSE, "pending", engine_status)
    /\ rt_before' = RtSnapshot
    /\ UNCHANGED <<loopVars, exceptRuntime, config_live, simulated_market_data,
                   simulate_market_data, connected, tasks, orphan_tasks, stop_caller,
                   shutdown_pc, shutdowns, repository_closed, late_write>>

(* both adapters connected: the symbol tasks are created and replace the   *)
(* content of _tasks, the status becomes RUNNING and the event is emitted; *)
(* when the event write raises, the except branch sets the status to ERROR *)
StartConnected ==
    /\ status_lock = "start"
    /\ connected' = [v \in Venues |-> TRUE]
    /\ orphan_tasks' = (orphan_tasks \/ tasks = "running")
    /\ tasks' = "running"
    /\ \E raised \in BOOLEAN :
          /\ engine_status' = (IF raised THEN "error" ELSE "running")
          /\ rt_call' = [rt_call EXCEPT !.ok = IF raised THEN "false" ELSE "true"]
    /\ status_lock' = "free"
    /\ UNCHANGED <<loopVars, exceptRuntime, config_live, simulated_market_data,
                   simulate_market_data, stop_caller, shutdown_pc, shutdowns,
                   repository_closed, late_write, rt_before>>

(* a connect() raises (real market data only): the except branch *)
StartConnectFails ==
    /\ status_lock = "start"
    /\ ~simulated_market_data
    /\ \E c \in [Venues -> BOOLEAN] :
          /\ \A v \in Venues : connected[v] => c[v]
          /\ connected' = c
    /\ engine_status' = "error"
    /\ rt_call' = [rt_call EXCEPT !.ok = "false"]
    /\ status_lock' = "free"
    /\ UNCHANGED <<loopVars, exceptRuntime, config_live, simulated_market_data,
                   simulate_market_data, tasks, orphan_tasks, stop_caller, shutdown_pc,
                   shutdowns, repository_closed, late_write, rt_before>>

(* stop() while STOPPED or STOPPING *)
StopRejected ==
    /\ ApiOpen
    /\ engine_status \in {"stopped", "stopping"}
    /\ rt_call' = RtCall("stop", FALSE, "false", engine_status)
    /\ rt_before' = RtSnapshot
    /\ UNCHANGED <<loopVars, exceptRuntime, engine_status, config_live,
                   simulated_market_data, simulate_market_data, connected, tasks,
                   orphan_tasks, status_lock, stop_caller, shutdown_pc, shutdowns,
                   repository_closed, late_write>>

(* stop(), first part: STOPPING, the tasks of _tasks are cancelled *)
stop_begin(c) ==
    /\ engine_status' = "stopping"
    /\ tasks' = (IF tasks = "running" THEN "cancelled" ELSE tasks)
    /\ status_lock' = "stop"
    /\ stop_caller' = c

StopBegin ==
    /\ ApiOpen
    /\ engine_status \notin {"stopped", "stopping"}
    /\ stop_begin("api")
    /\ rt_call' = RtCall("stop", FALSE, "pending", engine_status)
    /\ rt_before' = RtSnapshot
    /\ UNCHANGED <<loopVars, exceptRuntime, config_live, simulated_market_data,
                   simulate_market_data, connected, orphan_tasks, shutdown_pc,
                   shutdowns, repository_closed, late_write>>

(* a cancelled symbol task leaves its loop *)
TaskCancelled ==
    /\ tasks = "cancelled"
    /\ tasks' = "none"
    /\ UNCHANGED <<loopVars, exceptRuntime, engine_status, config_live,
                   simulated_market_data, simulate_market_data, connected,
                   orphan_tasks, status_lock, stop_caller, shutdown_pc, shutdowns,
                   repository_closed, late_write, rt_call, rt_before>>

(* a running symbol task emits an event *)
TaskWrite ==
    /\ tasks = "running" \/ orphan_tasks
    /\ late_write' = (late_write \/ repository_closed)
    /\ rt_call' = RtCall("task_event", FALSE, "none", engine_status)
    /\ UNCHANGED <<loopVars, exceptRuntime, engine_status, config_live,
                   simulated_market_data, simulate_market_data, connected, tasks,
                   orphan_tasks, status_lock, stop_caller, shutdown_pc, shutdowns,
                   repository_closed, rt_before>>

(* stop(), second part: the gather over _tasks has returned; both adapters *)
(* disconnect, the status becomes STOPPED and the event is emitted.  When  *)
(* shutdown is the caller and the event write does not raise, it goes on   *)
(* to close the repository.                                                *)
StopDisconnect ==
    /\ status_lock = "stop"
    /\ tasks = "none"
    /\ connected' = [v \in Venues |-> FALSE]
    /\ engine_status' = "stopped"
    /\ status_lock' = "free"
    /\ \E raised \in BOOLEAN :
          IF stop_caller = "shutdown"
          THEN /\ repository_closed' = (repository_closed \/ ~raised)
               /\ shutdowns' = shutdowns + 1
               /\ shutdown_pc' = "idle"
               /\ rt_call' = RtCall("shutdown", FALSE,
                                    IF raised THEN "raised" ELSE "true", rt_call.status)
          ELSE /\ rt_call' = [rt_call EXCEPT !.ok = IF raised THEN "raised" ELSE "true"]
               /\ UNCHANGED <<repository_closed, shutdowns, shutdown_pc>>
    /\ UNCHANGED <<loopVars, exceptRuntime, config_live, simulated_market_data,
                   simulate_market_data, tasks, orphan_tasks, stop_caller, late_write,
                   rt_before>>

(* Venue-A's disconnect raises (closing its client): stop() raises with    *)
(* the status left at STOPPING; Venue-B has dropped its client.            *)
StopDisconnectFails ==
    /\ status_lock = "stop"
    /\ tasks = "none"
    /\ connected["paradex"]
    /\ ~simulate_market_data["paradex"]
    /\ connected' = [connected EXCEPT !["grvt"] = FALSE]
    /\ status_lock' = "free"
    /\ IF stop_caller = "shutdown"
       THEN /\ shutdowns' = shutdowns + 1
            /\ shutdown_pc' = "idle"
            /\ rt_call' = RtCall("shutdown", FALSE, "raised", rt_call.status)
       ELSE /\ rt_call' = [rt_call EXCEPT !.ok = "raised"]
            /\ UNCHANGED <<shutdowns, shutdown_pc>>
    /\ UNCHANGED <<loopVars, exceptRuntime, engine_status, config_live,
                   simulated_market_data, simulate_market_data, tasks, orphan_tasks,
                   stop_caller, repository_closed, late_write, rt_before>>

(* shutdown() on a STOPPED engine: only the repository is closed *)
ShutdownStopped ==
    /\ shutdown_pc = "idle"
    /\ shutdowns < MaxShutdowns
    /\ engine_status = "stopped"
    /\ repository_closed' = TRUE
    /\ shutdowns' = shutdowns + 1
    /\ rt_call' = RtCall("shutdown", FALSE, "true", engine_status)
    /\ UNCHANGED <<loopVars, exceptRuntime, engine_status, config_live,
                   simulated_market_data, simulate_market_data, connected, tasks,
                   orphan_tasks, status_lock, stop_caller, shutdown_pc, late_write,
                   rt_before>>

(* shutdown() on an engine that is not STOPPED: it calls stop() *)
ShutdownCallsStop ==
    /\ shutdown_pc = "idle"
    /\ shutdowns < MaxShutdowns
    /\ engine_status # "stopped"
    /\ shutdown_pc' = "stop"
    /\ rt_call' = RtCall("shutdown", FALSE, "pending", engine_status)
    /\ UNCHANGED <<loopVars, exceptRuntime, engine_status, config_live,
                   simulated_market_data, simulate_market_data, connected, tasks,
                   orphan_tasks, status_lock, stop_caller, shutdowns,
                   repository_closed, late_write, rt_before>>

(* that stop() gets the lock and finds STOPPED or STOPPING: it returns     *)
(* False and shutdown closes the repository                                *)
ShutdownStopRejected ==
    /\ shutdown_pc = "stop"
    /\ status_lock = "free"
    /\ engine_status \in {"stopped", "stopping"}
    /\ repository_closed' = TRUE
    /\ shutdowns' = shutdowns + 1
    /\ shutdown_pc' = "idle"
    /\ rt_call' = [rt_call EXCEPT !.ok = "true"]
    /\ UNCHANGED <<loopVars, exceptRuntime, engine_status, config_live,
                   simulated_market_data, simulate_market_data, connected, tasks,
                   orphan_tasks, status_lock, stop_caller, late_write, rt_before>>

(* that stop() gets the lock and stops the engine *)
ShutdownStopBegin ==
    /\ shutdown_pc = "stop"
    /\ status_lock = "free"
    /\ engine_status \notin {"stopped", "stopping"}
    /\ stop_begin("shutdown")
    /\ shutdown_pc' = "stopping"
    /\ UNCHANGED <<loopVars, exceptRuntime, config_live, simulated_market_data,
                   simulate_market_data, connected, orphan_tasks, shutdowns,
                   repository_closed, late_write, rt_call, rt_before>>

NextRuntime ==
    \/ SetLiveOrderEnabled
    \/ SetSimulatedMarketData
    \/ StartRejected
    \/ StartRefused
    \/ StartBegin
    \/ StartConnected
    \/ StartConnectFails
    \/ StopRejected
    \/ StopBegin
    \/ TaskCancelled
    \/ TaskWrite
    \/ StopDisconnect
    \/ StopDisconnectFails
    \/ ShutdownStopped
    \/ ShutdownCallsStop
    \/ ShutdownStopRejected
    \/ ShutdownStopBegin

SpecRuntime == InitRuntime /\ [][NextRuntime]_vars

(* Vocabulary of the control-plane properties *)

RtBoth == simulated_market_data /\ config_live
RtSetters == {"set_live_order_enabled", "set_simulated_market_data"}
RtNoTask == tasks = "none" /\ ~orphan_tasks
RtNoAdapter == \A v \in Venues : ~connected[v]

(* both runtime flags, both adapters' simulation mode and the engine's     *)
(* live flag are what they were when the latest control call was made      *)
RtUnchanged ==
    /\ config_live = rt_before.live
    /\ simulated_market_data = rt_before.simulated
    /\ live_order_enabled = rt_before.engine_live
    /\ simulate_market_data = rt_before.adapters

(* C13: live orders are never enabled on simulated market data: flags that *)
(* are not both true never become both true, the engine's live flag always *)
(* equals the config flag, the engine is never RUNNING while both flags    *)
(* are true, and a start with both flags true is refused and leaves the    *)
(* engine STOPPED with no adapter connected and no symbol task created.    *)
C13_LiveNeverOnSimulated ==
    /\ [][~RtBoth => ~RtBoth']_vars
    /\ [](live_order_enabled = config_live)
    /\ [](~(engine_status = "running" /\ RtBoth))
    /\ []((rt_call.op = "start" /\ RtBoth) =>
             /\ rt_call.ok = "false"
             /\ engine_status = "stopped"
             /\ RtNoAdapter
             /\ RtNoTask)

(* C14 as stated: set_simulated_market_data and set_live_order_enabled(true) *)
(* are rejected with ok = false whenever the engine is not STOPPED, a        *)
(* rejected call changes nothing, and set_live_order_enabled(false) is       *)
(* accepted in every engine status and takes effect.                         *)
C14_Original ==
    /\ (rt_call.op = "set_simulated_market_data" /\ rt_call.status # "stopped")
          => rt_call.ok = "false"
    /\ (rt_call.op = "set_live_order_enabled" /\ rt_call.arg
          /\ rt_call.status # "stopped") => rt_call.ok = "false"
    /\ (rt_call.op \in RtSetters /\ rt_call.ok = "false") => RtUnchanged
    /\ (rt_call.op = "set_live_order_enabled" /\ ~rt_call.arg)
          => (rt_call.ok # "false" /\ ~config_live /\ ~live_order_enabled)

(* C14: set_simulated_market_data, in either direction, is rejected with   *)
(* ok = false whenever the engine is not STOPPED; set_live_order_enabled(  *)
(* true) on an engine that is not STOPPED is rejected with ok = false when *)
(* the live flag is false and returns ok = true without any change when    *)
(* the flag is already true; a rejected call changes neither runtime flag, *)
(* neither adapter's simulation mode nor the engine's live flag;           *)
(* set_live_order_enabled(false) is never rejected, in any engine status,  *)
(* and leaves the config flag and the engine's flag false.                 *)
C14_TogglesRespectEngineState ==
    /\ (rt_call.op = "set_simulated_market_data" /\ rt_call.status # "stopped")
          => rt_call.ok = "false"
    /\ (rt_call.op = "set_live_order_enabled" /\ rt_call.arg
          /\ rt_call.status # "stopped")
          => IF rt_before.live
             THEN rt_call.ok = "true" /\ RtUnchanged
             ELSE rt_call.ok = "false"
    /\ (rt_call.op \in RtSetters /\ rt_call.ok = "false") => RtUnchanged
    /\ (rt_call.op = "set_live_order_enabled" /\ ~rt_call.arg)
          => (rt_call.ok # "false" /\ ~config_live /\ ~live_order_enabled)

(* live orders were asked for on a RUNNING engine with the flag off, and   *)
(* the call was rejected                                                   *)
C14_Witness ==
    /\ rt_call.op = "set_live_order_enabled"
    /\ rt_call.arg
    /\ rt_call.status = "running"
    /\ ~rt_before.live
    /\ rt_call.ok = "false"
    /\ engine_status = "running"

(* C16: shutdown cancels and awaits every symbol task, then disconnects    *)
(* both adapters, then closes persistence: no adapter is disconnected      *)
(* while a symbol task is still running, persistence is closed only once   *)
(* no task runs and no adapter is connected, no event is written after     *)
(* persistence is closed, and a shutdown after persistence is closed       *)
(* cancels nothing, disconnects nothing and raises no error.               *)
C16_ShutdownOrder ==
    /\ [][(\E v \in Venues : connected[v] /\ ~connected'[v]) => RtNoTask]_vars
    /\ [][(~repository_closed /\ repository_closed') => (RtNoTask' /\ RtNoAdapter')]_vars
    /\ [](~late_write)
    /\ [][(repository_closed /\ shutdowns' > shutdowns) =>
             /\ UNCHANGED <<connected, tasks, orphan_tasks, engine_status>>
             /\ rt_call'.ok = "true"]_vars

----------------------------------------------------------------------------
(* TokenBucket shared by concurrent tasks.  Time is counted in ticks and   *)
(* rate_per_sec in tokens per tick.  The section under the bucket's lock   *)
(* holds no await, so each attempt (refill, then debit or give up) is one  *)
(* step; between two attempts of acquire the task sleeps for at least one  *)
(* tick.                                                                   *)

TbAmounts == 0..(MaxCap + 1)
TbTimeouts == 0..MaxTime

InitBucket ==
    /\ LoopRestInit
    /\ paradex = 0
    /\ grvt = 0
    /\ live_order_enabled = FALSE
    /\ PlannerParked
    /\ RuntimeParked
    /\ GuardsParked
    /\ ServicesParked
    /\ tb_rate \in 1..MaxRate
    /\ tb_capacity \in 1..MaxCap
    /\ BucketRestInit

(* variant: the refill is not capped at the capacity *)
_refill_unlocked_uncapped(tok, last, now, rate, cap) ==
    LET elapsed == IF now - last > 0 THEN now - last ELSE 0
    IN IF elapsed <= 0 THEN <<tok, last>>
       ELSE <<tok + elapsed * rate, now>>

(* _refill_unlocked: the new <<_tokens, _last_refill_at>> *)
_refill_unlocked(tok, last, now, rate, cap) ==
    LET elapsed == IF now - last > 0 THEN now - last ELSE 0
    IN IF elapsed <= 0 THEN <<tok, last>>
       ELSE <<Min(cap, tok + elapsed * rate), now>>

TbRefilled == _refill_unlocked(tb_tokens, tb_last_refill_at, tb_now, tb_rate, tb_capacity)

(* the bucket after one locked section that debits d tokens (d may be 0) *)
TbLocked(d) ==
    /\ tb_tokens' = TbRefilled[1] - d
    /\ tb_last_refill_at' = TbRefilled[2]
    /\ tb_debited_at' = [tb_debited_at EXCEPT ![tb_now] = @ + d]
    /\ tb_zero_at' = (IF TbRefilled[1] - d = 0 THEN tb_now ELSE tb_zero_at)

(* one pass of the while loop of acquire(): lines 50..60 *)
acquire_attempt(t, n, deadline, slept) ==
    IF TbRefilled[1] >= n
    THEN /\ TbLocked(n)
         /\ tb_task' = [tb_task EXCEPT ![t] = TbIdle]
         /\ tb_last' = TbResult(t, "acquire", n, "true", TbRefilled[1] - tb_tokens', slept)
    ELSE /\ TbLocked(0)
         /\ IF n - TbRefilled[1] > (deadline - tb_now) * tb_rate
            THEN /\ tb_task' = [tb_task EXCEPT ![t] = TbIdle]
                 /\ tb_last' = TbResult(t, "acquire", n, "false",
                                        TbRefilled[1] - tb_tokens', slept)
            ELSE /\ tb_task' = [tb_task EXCEPT ![t] =
                        [pc |-> "sleeping", n |-> n, deadline |-> deadline,
                         since |-> tb_now, slept |-> TRUE]]
                 /\ UNCHANGED tb_last

(* acquire(tokens, timeout) with a finite timeout is called *)
TbAcquire ==
    \E t \in TbTasks, n \in TbAmounts, timeout \in TbTimeouts :
        /\ tb_task[t].pc = "idle"
        /\ tb_now + timeout <= MaxTime
        /\ IF n <= 0
           THEN /\ tb_last' = TbResult(t, "acquire", n, "true", 0, FALSE)
                /\ UNCHANGED <<tb_tokens, tb_last_refill_at, tb_task, tb_debited_at,
                               tb_zero_at>>
           ELSE IF n > tb_capacity
           THEN /\ tb_last' = TbResult(t, "acquire", n, "error", 0, FALSE)
                /\ UNCHANGED <<tb_tokens, tb_last_refill_at, tb_task, tb_debited_at,
                               tb_zero_at>>
           ELSE acquire_attempt(t, n, tb_now + timeout, FALSE)
        /\ UNCHANGED <<loopVars, exceptBucket, tb_rate, tb_capacity, tb_now>>

(* a sleeping acquire() wakes up and tries again *)
TbRetry ==
    \E t \in TbTasks :
        /\ tb_task[t].pc = "sleeping"
        /\ tb_now > tb_task[t].since
        /\ acquire_attempt(t, tb_task[t].n, tb_task[t].deadline, TRUE)
        /\ UNCHANGED <<loopVars, exceptBucket, tb_rate, tb_capacity, tb_now>>

(* try_acquire(tokens) *)
TbTryAcquire ==
    \E t \in TbTasks, n \in TbAmounts :
        /\ tb_task[t].pc = "idle"
        /\ IF n <= 0
           THEN /\ tb_last' = TbResult(t, "try_acquire", n, "true", 0, FALSE)
                /\ UNCHANGED <<tb_tokens, tb_last_refill_at, tb_debited_at, tb_zero_at>>
           ELSE IF TbRefilled[1] >= n
           THEN /\ TbLocked(n)
                /\ tb_last' = TbResult(t, "try_acquire", n, "true",
                                       TbRefilled[1] - tb_tokens', FALSE)
           ELSE /\ TbLocked(0)
                /\ tb_last' = TbResult(t, "try_acquire", n, "false",
                                       TbRefilled[1] - tb_tokens', FALSE)
        /\ UNCHANGED <<loopVars, exceptBucket, tb_rate, tb_capacity, tb_now, tb_task>>

(* stats() *)
TbStats ==
    \E t \in TbTasks :
        /\ tb_task[t].pc = "idle"
        /\ TbLocked(0)
        /\ tb_last' = TbResult(t, "stats", TbRefilled[1], "none", 0, FALSE)
        /\ UNCHANGED <<loopVars, exceptBucket, tb_rate, tb_capacity, tb_now, tb_task>>

(* the monotonic clock advances *)
TbTick ==
    /\ tb_now < MaxTime
    /\ tb_now' = tb_now + 1
    /\ UNCHANGED <<loopVars, exceptBucket, tb_rate, tb_capacity, tb_tokens,
                   tb_last_refill_at, tb_task, tb_last, tb_debited_at, tb_zero_at>>

NextBucket ==
    \/ TbAcquire
    \/ TbRetry
    \/ TbTryAcquire
    \/ TbStats
    \/ TbTick

SpecBucket == InitBucket /\ [][NextBucket]_vars

(* time goes on and a task that is awake takes its next step *)
SpecBucketFair ==
    /\ InitBucket
    /\ [][NextBucket]_vars
    /\ WF_vars(TbTick)
    /\ WF_vars(TbRetry)

(* Vocabulary of the token-bucket properties *)

(* what stats() would report now: the stored tokens plus the refill due *)
TbAvailable ==
    LET due == tb_tokens + (tb_now - tb_last_refill_at) * tb_rate
    IN IF due < tb_capacity THEN due ELSE tb_capacity

RECURSIVE TbDebitedIn(_, _)
TbDebitedIn(i, j) == IF i > j THEN 0 ELSE tb_debited_at[i] + TbDebitedIn(i + 1, j)

(* C17: under every interleaving of acquire, try_acquire and stats calls   *)
(* 0 <= tokens <= capacity at all times; tokens are only added by refill,  *)
(* at rate times elapsed time; a bucket left empty holds at most           *)
(* min(capacity, t * rate) tokens t ticks later; and the tokens debited    *)
(* over any interval of length t are at most capacity + t * rate.          *)
C17_BucketBounds ==
    /\ [](0 <= tb_tokens /\ tb_tokens <= tb_capacity)
    /\ [][tb_tokens' > tb_tokens =>
             tb_tokens' - tb_tokens <= tb_rate * (tb_now - tb_last_refill_at)]_vars
    /\ [](tb_tokens + TbDebitedIn(0, tb_now) <= tb_capacity + tb_rate * tb_now)
    /\ [](tb_zero_at >= 0 =>
             /\ TbAvailable <= tb_capacity
             /\ TbAvailable <= (tb_now - tb_zero_at) * tb_rate)
    /\ [](\A i \in 0..MaxTime : \A j \in i..MaxTime :
             j <= tb_now => TbDebitedIn(i, j) <= tb_capacity + (j - i) * tb_rate)

(* the bucket was emptied, time has passed, tokens are back, more than a   *)
(* full bucket has been debited in all and a task is waiting for refill    *)
C17_Witness ==
    /\ tb_zero_at >= 0
    /\ tb_now > tb_zero_at
    /\ tb_tokens > 0
    /\ TbDebitedIn(0, tb_now) > tb_capacity
    /\ \E t \in TbTasks : tb_task[t].pc = "sleeping"

(* C18: a request for n > capacity tokens fails with a configuration error *)
(* without debiting and without waiting; acquire(n, timeout) with          *)
(* n <= capacity and a finite timeout always terminates, returns true      *)
(* exactly when that call debited n tokens and false with nothing debited  *)
(* otherwise, also when other tasks compete; try_acquire never suspends.   *)
C18_AcquisitionContract ==
    /\ [](tb_last.op \in {"acquire", "try_acquire"} /\ tb_last.n > tb_capacity =>
             /\ tb_last.result = "error"
             /\ tb_last.debited = 0
             /\ ~tb_last.slept)
    /\ [](tb_last.op = "acquire" /\ tb_last.n <= tb_capacity =>
             /\ tb_last.result \in {"true", "false"}
             /\ tb_last.result = "true" <=> tb_last.debited = tb_last.n
             /\ tb_last.result = "false" => tb_last.debited = 0)
    /\ [](tb_last.op = "try_acquire" => ~tb_last.slept)
    /\ \A t \in TbTasks : (tb_task[t].pc = "sleeping") ~> (tb_task[t].pc = "idle")

----------------------------------------------------------------------------
(* ConsistencyGuard for one symbol.  Prices are integers; a difference in  *)
(* bps is the exact fraction <<num, den>> = num / den, as the code's       *)
(* Decimal arithmetic keeps it, with                                       *)
(*   |a - b| / ((a + b) / 2) * 10000  =  20000 * |a - b| / (a + b),        *)
(* held as <<|a - b|, a + b>> in units of 20000 bps.                       *)

(* consistency_tolerance_bps = 0.08 bps, in the same units: 8 / 2000000 *)
consistency_tolerance_bps == <<8, 2000000>>

CgBBOs == {[bid |-> 200000, ask |-> 200010],
           [bid |-> 200001, ask |-> 200010],
           [bid |-> 200000, ask |-> 200012]}

CgInputs == (CgBBOs \cup {NoBBO}) \X (CgBBOs \cup {NoBBO})
                \X (CgBBOs \cup {NoBBO}) \X (CgBBOs \cup {NoBBO})

FracGt(x, y) == x[1] * y[2] > y[1] * x[2]
FracMax(x, y) == IF FracGt(y, x) THEN y ELSE x

_diff_bps(a, b) ==
    IF a <= 0 \/ b <= 0 THEN <<0, 1>>
    ELSE IF a + b <= 0 THEN <<0, 1>>
    ELSE <<Abs(a - b), a + b>>

(* variant: ok tolerates one failure more *)
check_off_by_one(count, paradex_ws, paradex_rest, grvt_ws, grvt_rest) ==
    IF NoBBO \in {paradex_ws, paradex_rest, grvt_ws, grvt_rest}
    THEN <<count + 1, count + 1 <= consistency_max_failures>>
    ELSE LET pd_bid_diff == _diff_bps(paradex_ws.bid, paradex_rest.bid)
             pd_ask_diff == _diff_bps(paradex_ws.ask, paradex_rest.ask)
             gr_bid_diff == _diff_bps(grvt_ws.bid, grvt_rest.bid)
             gr_ask_diff == _diff_bps(grvt_ws.ask, grvt_rest.ask)
             max_diff == FracMax(FracMax(pd_bid_diff, pd_ask_diff),
                                 FracMax(gr_bid_diff, gr_ask_diff))
         IN IF FracGt(max_diff, consistency_tolerance_bps)
            THEN <<count + 1, count + 1 <= consistency_max_failures>>
            ELSE <<0, TRUE>>

(* ConsistencyGuard.check: the new <<failed_count, ok>> *)
check(count, paradex_ws, paradex_rest, grvt_ws, grvt_rest) ==
    IF NoBBO \in {paradex_ws, paradex_rest, grvt_ws, grvt_rest}
    THEN <<count + 1, count + 1 < consistency_max_failures>>
    ELSE LET pd_bid_diff == _diff_bps(paradex_ws.bid, paradex_rest.bid)
             pd_ask_diff == _diff_bps(paradex_ws.ask, paradex_rest.ask)
             gr_bid_diff == _diff_bps(grvt_ws.bid, grvt_rest.bid)
             gr_ask_diff == _diff_bps(grvt_ws.ask, grvt_rest.ask)
             max_diff == FracMax(FracMax(pd_bid_diff, pd_ask_diff),
                                 FracMax(gr_bid_diff, gr_ask_diff))
         IN IF FracGt(max_diff, consistency_tolerance_bps)
            THEN <<count + 1, count + 1 < consistency_max_failures>>
            ELSE <<0, TRUE>>

(* the comparison of one pair of prices is out of tolerance: more than     *)
(* 0.08 bps of their mean apart                                            *)
CgPairOff(a, b) ==
    LET d == IF a < b THEN b - a ELSE a - b
    IN d * 2000000 > 8 * (a + b)

(* the check on these four BBOs is a failing one *)
CgInputFails(in) ==
    \/ \E i \in 1..4 : in[i] = NoBBO
    \/ CgPairOff(in[1].bid, in[2].bid)
    \/ CgPairOff(in[1].ask, in[2].ask)
    \/ CgPairOff(in[3].bid, in[4].bid)
    \/ CgPairOff(in[3].ask, in[4].ask)

InitConsistency ==
    /\ LoopRestInit
    /\ paradex = 0
    /\ grvt = 0
    /\ live_order_enabled = FALSE
    /\ PlannerParked
    /\ RuntimeParked
    /\ BucketParked
    /\ GuardsParked
    /\ ServicesParked

(* consistency_guard.check(symbol, paradex_ws, paradex_rest, grvt_ws, grvt_rest) *)
ConsistencyCheck ==
    /\ cg_checks < MaxChecks
    /\ \E in \in CgInputs :
          LET r == check(cg_failed_count, in[1], in[2], in[3], in[4])
          IN /\ cg_failed_count' = r[1]
             /\ cg_ok' = r[2]
             /\ cg_ret' = r[2]
             /\ cg_in' = in
             /\ cg_run' = (IF CgInputFails(in) THEN cg_run + 1 ELSE 0)
    /\ cg_present' = TRUE
    /\ cg_prev' = cg_failed_count
    /\ cg_checks' = cg_checks + 1
    /\ UNCHANGED <<loopVars, exceptConsistency>>

NextConsistency ==
    \/ ConsistencyCheck

SpecConsistency == InitConsistency /\ [][NextConsistency]_vars

(* C19: after every check failed_count is the number of consecutive        *)
(* failing checks since the last passing one (a check fails when a BBO is  *)
(* missing or the largest REST-vs-WS difference exceeds tolerance_bps), a  *)
(* passing check resets it to 0, and ok and the value returned are true    *)
(* exactly when failed_count < max_failures: with max_failures = 3 the     *)
(* third consecutive failure makes ok false and the next passing check     *)
(* makes it true again.                                                    *)
C19_ConsecutiveFailures ==
    cg_present =>
        /\ cg_failed_count = cg_run
        /\ ~CgInputFails(cg_in) => cg_failed_count = 0
        /\ CgInputFails(cg_in) => cg_failed_count = cg_prev + 1
        /\ cg_ok <=> cg_failed_count < consistency_max_failures
        /\ cg_ret = cg_ok
        /\ cg_run = 3 => ~cg_ok
        /\ cg_run = 0 => cg_ok

(* three failures in a row had made ok false; the passing check after them *)
(* compared prices that differ within tolerance and made it true again     *)
C19_Witness ==
    /\ cg_present
    /\ cg_prev = 3
    /\ cg_failed_count = 0
    /\ cg_ok
    /\ cg_in[1].bid # cg_in[2].bid

----------------------------------------------------------------------------
(* HealthGuard: update(exchange, ok) and can_open() *)

(* variant: can_open looks at the failure counts only *)
health_can_open_counts_only(items) ==
    IF \A v \in Venues : ~items[v].registered THEN FALSE
    ELSE \A v \in Venues :
            items[v].registered => ~(items[v].fail_count >= health_fail_threshold)

(* HealthGuard.can_open *)
health_can_open(items) ==
    IF \A v \in Venues : ~items[v].registered THEN FALSE
    ELSE \A v \in Venues :
            items[v].registered =>
                /\ ~(items[v].fail_count >= health_fail_threshold)
                /\ items[v].ok

InitHealth ==
    /\ LoopRestInit
    /\ paradex = 0
    /\ grvt = 0
    /\ live_order_enabled = FALSE
    /\ PlannerParked
    /\ RuntimeParked
    /\ BucketParked
    /\ GuardsParked
    /\ ServicesParked

(* health_guard.update(exchange, ok) *)
HealthUpdate ==
    /\ \E v \in Venues, ok \in BOOLEAN :
          /\ ok \/ hg_items[v].fail_count < MaxFails
          /\ hg_items' = [hg_items EXCEPT ![v] =
                [registered |-> TRUE, ok |-> ok,
                 fail_count |-> IF ok THEN 0 ELSE hg_items[v].fail_count + 1]]
          /\ hg_call' = [op |-> "update", exchange |-> v, ok |-> ok]
          /\ hg_prev' = hg_items[v].fail_count
    /\ UNCHANGED <<loopVars, exceptHealth, hg_result>>

(* health_ok = health_guard.can_open() *)
HealthCanOpen ==
    /\ hg_result' = health_can_open(hg_items)
    /\ hg_call' = [op |-> "can_open", exchange |-> hg_call.exchange, ok |-> hg_call.ok]
    /\ UNCHANGED <<loopVars, exceptHealth, hg_items, hg_prev>>

NextHealth ==
    \/ HealthUpdate
    \/ HealthCanOpen

SpecHealth == InitHealth /\ [][NextHealth]_vars

(* Vocabulary of the health-guard properties *)

HgRegistered == {v \in Venues : hg_items[v].registered}

HgAllHealthy ==
    \A v \in HgRegistered :
        hg_items[v].fail_count < health_fail_threshold /\ hg_items[v].ok

HgUpdateCounts ==
    hg_call.op = "update" =>
        /\ hg_items[hg_call.exchange].registered
        /\ hg_items[hg_call.exchange].ok = hg_call.ok
        /\ hg_items[hg_call.exchange].fail_count = (IF hg_call.ok THEN 0 ELSE hg_prev + 1)

(* C20 as stated: can_open() is true exactly when every registered venue   *)
(* has fail_count < threshold and its latest update was ok; update(ok)     *)
(* resets the venue's fail_count and update(not ok) increments it by one.  *)
C20_Original ==
    /\ health_can_open(hg_items) <=> HgAllHealthy
    /\ hg_call.op = "can_open" => (hg_result <=> HgAllHealthy)
    /\ HgUpdateCounts

(* C20: can_open() is true exactly when at least one venue is registered   *)
(* and every registered venue has fail_count < threshold and its latest    *)
(* update was ok; update(ok) resets the venue's fail_count to 0 and        *)
(* update(not ok) increments it by one.                                    *)
C20_CanOpenIffAllHealthy ==
    /\ health_can_open(hg_items) <=> (HgRegistered # {} /\ HgAllHealthy)
    /\ hg_call.op = "can_open" => (hg_result <=> (HgRegistered # {} /\ HgAllHealthy))
    /\ HgUpdateCounts

(* both venues are registered, one has just failed once, below the         *)
(* threshold, and can_open() has answered                                  *)
C20_Witness ==
    /\ HgRegistered = Venues
    /\ hg_call.op = "can_open"
    /\ ~hg_result
    /\ \E v \in Venues : hg_items[v].fail_count = 1 /\ ~hg_items[v].ok
    /\ \E v \in Venues : hg_items[v].ok

----------------------------------------------------------------------------
(* WsSupervisor: mark_connected, mark_message, mark_disconnected, is_ok *)

(* variant: is_ok applies the idle timeout to a venue that has never       *)
(* received a message too                                                  *)
is_ok_idle_from_epoch(states, now) ==
    IF \A v \in Venues : ~states[v].registered THEN FALSE
    ELSE \A v \in Venues :
            states[v].registered =>
                /\ states[v].connected
                /\ ~(now - states[v].last_message_ms > ws_idle_timeout)

(* WsSupervisor.is_ok *)
is_ok(states, now) ==
    IF \A v \in Venues : ~states[v].registered THEN FALSE
    ELSE \A v \in Venues :
            states[v].registered =>
                /\ states[v].connected
                /\ ~(states[v].last_message_ms # 0
                       /\ now - states[v].last_message_ms > ws_idle_timeout)

InitWs ==
    /\ LoopRestInit
    /\ paradex = 0
    /\ grvt = 0
    /\ live_order_enabled = FALSE
    /\ PlannerParked
    /\ RuntimeParked
    /\ BucketParked
    /\ GuardsParked
    /\ ServicesParked

(* ws_supervisor.mark_connected(exchange) *)
WsMarkConnected ==
    /\ \E v \in Venues :
          /\ ws_states' = [ws_states EXCEPT ![v] =
                [@ EXCEPT !.registered = TRUE, !.connected = TRUE]]
          /\ ws_call' = [op |-> "mark_connected", exchange |-> v]
          /\ ws_prev' = ws_states[v]
    /\ UNCHANGED <<loopVars, exceptWs, ws_now, ws_result>>

(* ws_supervisor.mark_message(exchange) *)
WsMarkMessage ==
    /\ \E v \in Venues :
          /\ ws_states' = [ws_states EXCEPT ![v] =
                [@ EXCEPT !.registered = TRUE, !.connected = TRUE,
                          !.last_message_ms = ws_now]]
          /\ ws_call' = [op |-> "mark_message", exchange |-> v]
          /\ ws_prev' = ws_states[v]
    /\ UNCHANGED <<loopVars, exceptWs, ws_now, ws_result>>

(* ws_supervisor.mark_disconnected(exchange) *)
WsMarkDisconnected ==
    /\ \E v \in Venues :
          /\ ws_states[v].reconnect_count < MaxReconnects
          /\ ws_states' = [ws_states EXCEPT ![v] =
                [@ EXCEPT !.registered = TRUE, !.connected = FALSE,
                          !.reconnect_count = @ + 1]]
          /\ ws_call' = [op |-> "mark_disconnected", exchange |-> v]
          /\ ws_prev' = ws_states[v]
    /\ UNCHANGED <<loopVars, exceptWs, ws_now, ws_result>>

(* ws_ok = ws_supervisor.is_ok() *)
WsIsOk ==
    /\ ws_result' = is_ok(ws_states, ws_now)
    /\ ws_call' = [op |-> "is_ok", exchange |-> ws_call.exchange]
    /\ UNCHANGED <<loopVars, exceptWs, ws_states, ws_now, ws_prev>>

(* the wall clock advances *)
WsTick ==
    /\ ws_now < WsEpoch + MaxTime
    /\ ws_now' = ws_now + 1
    /\ ws_call' = [op |-> "tick", exchange |-> ws_call.exchange]
    /\ UNCHANGED <<loopVars, exceptWs, ws_states, ws_prev, ws_result>>

NextWs ==
    \/ WsMarkConnected
    \/ WsMarkMessage
    \/ WsMarkDisconnected
    \/ WsIsOk
    \/ WsTick

SpecWs == InitWs /\ [][NextWs]_vars

(* Vocabulary of the supervisor properties *)

WsRegistered == {v \in Venues : ws_states[v].registered}

WsAllConnected == \A v \in WsRegistered : ws_states[v].connected

(* now - last_message <= idle_timeout for every venue *)
WsAllRecent ==
    \A v \in WsRegistered : ws_now - ws_states[v].last_message_ms <= ws_idle_timeout

(* the same for the venues that have received a message *)
WsHeardRecent ==
    \A v \in WsRegistered :
        ws_states[v].last_message_ms # 0 =>
            ws_now - ws_states[v].last_message_ms <= ws_idle_timeout

WsDisconnectCounts ==
    ws_call.op = "mark_disconnected" =>
        /\ ws_states[ws_call.exchange].registered
        /\ ~ws_states[ws_call.exchange].connected
        /\ ws_states[ws_call.exchange].reconnect_count = ws_prev.reconnect_count + 1

(* C21 as stated: is_ok() is true exactly when every venue is connected    *)
(* and now - last_message <= idle_timeout for every venue;                 *)
(* mark_disconnected sets the venue disconnected and adds exactly one to   *)
(* its reconnect counter.                                                  *)
C21_Original ==
    /\ is_ok(ws_states, ws_now) <=> (WsAllConnected /\ WsAllRecent)
    /\ ws_call.op = "is_ok" => (ws_result <=> (WsAllConnected /\ WsAllRecent))
    /\ WsDisconnectCounts

(* C21: is_ok() is true exactly when at least one venue is registered,     *)
(* every registered venue is connected, and now - last_message <=          *)
(* idle_timeout for every registered venue that has received a message;    *)
(* mark_disconnected sets the venue disconnected and adds exactly one to   *)
(* its reconnect counter.                                                  *)
C21_IsOkIffConnectedAndHeard ==
    /\ is_ok(ws_states, ws_now)
          <=> (WsRegistered # {} /\ WsAllConnected /\ WsHeardRecent)
    /\ ws_call.op = "is_ok"
          => (ws_result <=> (WsRegistered # {} /\ WsAllConnected /\ WsHeardRecent))
    /\ WsDisconnectCounts

(* both venues are connected, one has been silent for longer than the idle *)
(* timeout since its last message, the other has never received one, and   *)
(* is_ok() has answered no                                                 *)
C21_Witness ==
    /\ WsRegistered = Venues
    /\ WsAllConnected
    /\ ws_call.op = "is_ok"
    /\ ~ws_result
    /\ \E v \in Venues :
          /\ ws_states[v].last_message_ms # 0
          /\ ws_now - ws_states[v].last_message_ms > ws_idle_timeout
          /\ ws_states[v].reconnect_count = 1
    /\ \E v \in Venues : ws_states[v].last_message_ms = 0

----------------------------------------------------------------------------
(* OrderBookManager: update_ws, update_rest, get_effective_pair, is_stale *)

(* a BBO built by an adapter now: timestamp_ms defaults to utc_ms() *)
NewBBO(source) == [bid |-> 999, ask |-> 1002, timestamp_ms |-> ob_now, source |-> source]

(* OrderBookManager.update_ws *)
update_ws(books, exchange, symbol, bbo) ==
    IF exchange = "paradex"
    THEN [books EXCEPT ![symbol].paradex_ws = bbo]
    ELSE [books EXCEPT ![symbol].grvt_ws = bbo]

(* OrderBookManager.update_rest *)
update_rest(books, exchange, symbol, bbo) ==
    IF exchange = "paradex"
    THEN [books EXCEPT ![symbol].paradex_rest = bbo]
    ELSE [books EXCEPT ![symbol].grvt_rest = bbo]

(* OrderBookManager.get_ws_pair *)
get_ws_pair(books, symbol) == <<books[symbol].paradex_ws, books[symbol].grvt_ws>>

(* OrderBookManager.get_effective_pair *)
get_effective_pair(books, symbol) ==
    <<IF books[symbol].paradex_ws # NoneBBO
      THEN books[symbol].paradex_ws ELSE books[symbol].paradex_rest,
      IF books[symbol].grvt_ws # NoneBBO
      THEN books[symbol].grvt_ws ELSE books[symbol].grvt_rest>>

(* variant: a REST quote counts as fresh data *)
is_stale_effective_pair(books, symbol, limit, now) ==
    LET pair == get_effective_pair(books, symbol)
    IN IF pair[1] = NoneBBO \/ pair[2] = NoneBBO THEN TRUE
       ELSE IF now - pair[1].timestamp_ms > limit THEN TRUE
       ELSE IF now - pair[2].timestamp_ms > limit THEN TRUE
       ELSE FALSE

(* OrderBookManager.is_stale *)
is_stale(books, symbol, limit, now) ==
    LET pair == get_ws_pair(books, symbol)
    IN IF pair[1] = NoneBBO \/ pair[2] = NoneBBO THEN TRUE
       ELSE IF now - pair[1].timestamp_ms > limit THEN TRUE
       ELSE IF now - pair[2].timestamp_ms > limit THEN TRUE
       ELSE FALSE

InitBooks ==
    /\ LoopRestInit
    /\ paradex = 0
    /\ grvt = 0
    /\ live_order_enabled = FALSE
    /\ PlannerParked
    /\ RuntimeParked
    /\ BucketParked
    /\ GuardsParked
    /\ ServicesParked

(* order_books.update_ws(exchange, symbol, bbo) *)
ObUpdateWs ==
    /\ ob_updates < MaxBookUpdates
    /\ ob_updates' = ob_updates + 1
    /\ \E v \in Venues, s \in ObSymbols :
          /\ ob_books' = update_ws(ob_books, v, s, NewBBO("ws"))
          /\ ob_call' = [NoBookCall EXCEPT !.op = "update_ws", !.exchange = v,
                                           !.symbol = s]
    /\ UNCHANGED <<loopVars, exceptBooks, ob_now>>

(* order_books.update_rest(exchange, symbol, bbo) *)
ObUpdateRest ==
    /\ ob_updates < MaxBookUpdates
    /\ ob_updates' = ob_updates + 1
    /\ \E v \in Venues, s \in ObSymbols :
          /\ ob_books' = update_rest(ob_books, v, s, NewBBO("rest"))
          /\ ob_call' = [NoBookCall EXCEPT !.op = "update_rest", !.exchange = v,
                                           !.symbol = s]
    /\ UNCHANGED <<loopVars, exceptBooks, ob_now>>

(* order_books.get_effective_pair(symbol) *)
ObGetEffectivePair ==
    /\ \E s \in ObSymbols :
          ob_call' = [NoBookCall EXCEPT !.op = "get_effective_pair", !.symbol = s,
                                        !.pair = get_effective_pair(ob_books, s)]
    /\ UNCHANGED <<loopVars, exceptBooks, ob_books, ob_now, ob_updates>>

(* stale = order_books.is_stale(symbol, stale_ms) *)
ObIsStale ==
    /\ \E s \in ObSymbols :
          ob_call' = [NoBookCall EXCEPT !.op = "is_stale", !.symbol = s,
                                        !.stale = is_stale(ob_books, s, stale_ms, ob_now)]
    /\ UNCHANGED <<loopVars, exceptBooks, ob_books, ob_now, ob_updates>>

(* the wall clock advances *)
ObTick ==
    /\ ob_now < MaxBookTime
    /\ ob_now' = ob_now + 1
    /\ ob_call' = [NoBookCall EXCEPT !.op = "tick"]
    /\ UNCHANGED <<loopVars, exceptBooks, ob_books, ob_updates>>

NextBooks ==
    \/ ObUpdateWs
    \/ ObUpdateRest
    \/ ObGetEffectivePair
    \/ ObIsStale
    \/ ObTick

SpecBooks == InitBooks /\ [][NextBooks]_vars

(* Vocabulary of the order-book properties *)

ObSlots == {"paradex_ws", "grvt_ws", "paradex_rest", "grvt_rest"}

ObStored(s, slot) == ob_books[s][slot] # NoneBBO

(* a WS quote is missing or older than stale_ms *)
ObStale(s) ==
    \/ ~ObStored(s, "paradex_ws")
    \/ ~ObStored(s, "grvt_ws")
    \/ ob_now - ob_books[s].paradex_ws.timestamp_ms > stale_ms
    \/ ob_now - ob_books[s].grvt_ws.timestamp_ms > stale_ms

(* per venue the WS quote if one is stored, else the REST quote *)
ObEffective(s) ==
    <<IF ObStored(s, "paradex_ws") THEN ob_books[s].paradex_ws
      ELSE ob_books[s].paradex_rest,
      IF ObStored(s, "grvt_ws") THEN ob_books[s].grvt_ws ELSE ob_books[s].grvt_rest>>

(* the slot an update names *)
ObNamedSlot(call) ==
    IF call.op = "update_ws"
    THEN (IF call.exchange = "paradex" THEN "paradex_ws" ELSE "grvt_ws")
    ELSE (IF call.exchange = "paradex" THEN "paradex_rest" ELSE "grvt_rest")

ObReadsAgree ==
    /\ \A s \in ObSymbols :
          /\ is_stale(ob_books, s, stale_ms, ob_now) <=> ObStale(s)
          /\ get_effective_pair(ob_books, s) = ObEffective(s)
    /\ ob_call.op = "is_stale" => (ob_call.stale <=> ObStale(ob_call.symbol))
    /\ ob_call.op = "get_effective_pair" => ob_call.pair = ObEffective(ob_call.symbol)

ObUpdateOverwritesOneSlot ==
    /\ ob_call'.op \in {"update_ws", "update_rest"} =>
          /\ ob_books'[ob_call'.symbol][ObNamedSlot(ob_call')].timestamp_ms = ob_now
          /\ ob_books'[ob_call'.symbol][ObNamedSlot(ob_call')].source
                = (IF ob_call'.op = "update_ws" THEN "ws" ELSE "rest")
          /\ \A s \in ObSymbols, slot \in ObSlots :
                (s # ob_call'.symbol \/ slot # ObNamedSlot(ob_call'))
                    => ob_books'[s][slot] = ob_books[s][slot]
    /\ ob_call'.op \notin {"update_ws", "update_rest"} => ob_books' = ob_books

(* C22: is_stale(symbol, stale_ms) is true exactly when a WS quote of      *)
(* either venue is missing or older than stale_ms (REST quotes never make  *)
(* a symbol fresh); get_effective_pair returns per venue the WS quote if   *)
(* one is stored, else the REST quote; each update_ws / update_rest        *)
(* overwrites the one (symbol, venue, source) slot it names and no other.  *)
C22_OrderBookCache ==
    /\ []ObReadsAgree
    /\ [][ObUpdateOverwritesOneSlot]_vars

(* one symbol holds fresh REST quotes of both venues, an old WS quote of   *)
(* one venue and none of the other, the other symbol holds nothing, and    *)
(* is_stale has just answered yes for the first                            *)
C22_Witness ==
    /\ ob_call.op = "is_stale"
    /\ ob_call.stale
    /\ \E s \in ObSymbols :
          /\ ob_call.symbol = s
          /\ ObStored(s, "paradex_rest") /\ ObStored(s, "grvt_rest")
          /\ ob_books[s].paradex_rest.timestamp_ms = ob_now
          /\ ob_books[s].grvt_rest.timestamp_ms = ob_now
          /\ ObStored(s, "paradex_ws") /\ ~ObStored(s, "grvt_ws")
          /\ ob_now - ob_books[s].paradex_ws.timestamp_ms > stale_ms
          /\ \E t \in ObSymbols \ {s} : ob_books[t] = SymbolBooks

----------------------------------------------------------------------------
(* Broadcast queues: _broadcast / register_ws_queue of the orchestrator,   *)
(* broadcast_market_top_spreads / register_market_ws_queue and the         *)
(* consumer loop of /ws/stream                                             *)

(* variant: a full queue keeps what it holds and the new message is lost   *)
put_event_drop_newest(items, message) ==
    IF Len(items) < ws_queue_maxsize
    THEN [items |-> Append(items, message), failed |-> FALSE]
    ELSE [items |-> items, failed |-> FALSE]

(* body of the loop of _broadcast for one queue: put_nowait; on QueueFull  *)
(* get_nowait then put_nowait; an exception of these two is swallowed      *)
put_event(items, message) ==
    IF Len(items) < ws_queue_maxsize
    THEN [items |-> Append(items, message), failed |-> FALSE]
    ELSE IF items = <<>>
    THEN [items |-> items, failed |-> TRUE]
    ELSE IF Len(Tail(items)) < ws_queue_maxsize
    THEN [items |-> Append(Tail(items), message), failed |-> FALSE]
    ELSE [items |-> Tail(items), failed |-> TRUE]

(* body of the loop of broadcast_market_top_spreads for one queue: if      *)
(* full() get_nowait (QueueEmpty ignored), then put_nowait; a queue whose  *)
(* put_nowait raises is discarded from the registry                        *)
put_market(items, message) ==
    LET room == IF Len(items) >= market_ws_queue_maxsize
                THEN (IF items = <<>> THEN items ELSE Tail(items))
                ELSE items
    IN IF Len(room) < market_ws_queue_maxsize
       THEN [items |-> Append(room, message), failed |-> FALSE]
       ELSE [items |-> room, failed |-> TRUE]

InitBroadcastQueues ==
    /\ LoopRestInit
    /\ paradex = 0
    /\ grvt = 0
    /\ live_order_enabled = FALSE
    /\ PlannerParked
    /\ RuntimeParked
    /\ BucketParked
    /\ GuardsParked
    /\ ServicesParked

(* ws_stream: register_ws_queue() and register_market_ws_queue() *)
BcRegister ==
    /\ \E c \in Connections :
          /\ ~bc_conn[c].registered
          /\ bc_conn' = [bc_conn EXCEPT ![c] = [NoConnection EXCEPT !.registered = TRUE]]
          /\ bc_call' = [NoBroadcast EXCEPT !.op = "register", !.conn = c]
    /\ UNCHANGED <<loopVars, exceptBroadcast, bc_seq>>

(* ws_stream, finally: unregister_ws_queue and unregister_market_ws_queue *)
BcUnregister ==
    /\ \E c \in Connections :
          /\ bc_conn[c].registered
          /\ bc_conn' = [bc_conn EXCEPT ![c] = NoConnection]
          /\ bc_call' = [NoBroadcast EXCEPT !.op = "unregister", !.conn = c]
    /\ UNCHANGED <<loopVars, exceptBroadcast, bc_seq>>

(* await self._broadcast(payload): no suspension point inside *)
BcBroadcast ==
    /\ bc_seq < MaxMessages
    /\ bc_seq' = bc_seq + 1
    /\ bc_conn' = [c \in Connections |->
          IF bc_conn[c].registered
          THEN [bc_conn[c] EXCEPT !.events = put_event(@, bc_seq + 1).items]
          ELSE bc_conn[c]]
    /\ bc_call' = [NoBroadcast EXCEPT
          !.op = "broadcast", !.message = bc_seq + 1,
          !.failed = \E c \in Connections :
                        /\ bc_conn[c].registered
                        /\ put_event(bc_conn[c].events, bc_seq + 1).failed]
    /\ UNCHANGED <<loopVars, exceptBroadcast>>

(* await broadcast_market_top_spreads(payload): no suspension point inside *)
BcBroadcastMarket ==
    /\ bc_seq < MaxMessages
    /\ \E c \in Connections : bc_conn[c].registered
    /\ bc_seq' = bc_seq + 1
    /\ bc_conn' = [c \in Connections |->
          IF ~bc_conn[c].registered THEN bc_conn[c]
          ELSE IF put_market(bc_conn[c].market, bc_seq + 1).failed
          THEN NoConnection
          ELSE [bc_conn[c] EXCEPT !.market = put_market(@, bc_seq + 1).items]]
    /\ bc_call' = [NoBroadcast EXCEPT
          !.op = "broadcast_market", !.message = bc_seq + 1,
          !.failed = \E c \in Connections :
                        /\ bc_conn[c].registered
                        /\ put_market(bc_conn[c].market, bc_seq + 1).failed]
    /\ UNCHANGED <<loopVars, exceptBroadcast>>

(* one round of the loop of ws_stream: queue.get() and market_queue.get()  *)
(* are both started; every get that finds a message completes, the message *)
(* of one completed get is sent and that of the other is not               *)
BcConsume ==
    /\ \E c \in Connections :
          /\ bc_conn[c].registered
          /\ bc_conn[c].events # <<>> \/ bc_conn[c].market # <<>>
          /\ \E kind \in {"event", "market"} :
                /\ kind = "event" => bc_conn[c].events # <<>>
                /\ kind = "market" => bc_conn[c].market # <<>>
                /\ bc_conn' = [bc_conn EXCEPT ![c] =
                      [registered |-> TRUE,
                       events |-> IF @.events = <<>> THEN <<>> ELSE Tail(@.events),
                       market |-> IF @.market = <<>> THEN <<>> ELSE Tail(@.market),
                       sent_event |-> IF kind = "event" THEN Head(@.events)
                                      ELSE @.sent_event,
                       sent_market |-> IF kind = "market" THEN Head(@.market)
                                       ELSE @.sent_market]]
                /\ bc_call' = [NoBroadcast EXCEPT
                      !.op = IF kind = "event" THEN "send_event" ELSE "send_market",
                      !.conn = c,
                      !.message = IF kind = "event" THEN Head(bc_conn[c].events)
                                  ELSE Head(bc_conn[c].market)]
    /\ UNCHANGED <<loopVars, exceptBroadcast, bc_seq>>

NextBroadcast ==
    \/ BcRegister
    \/ BcUnregister
    \/ BcBroadcast
    \/ BcBroadcastMarket
    \/ BcConsume

SpecBroadcast == InitBroadcastQueues /\ [][NextBroadcast]_vars

(* Vocabulary of the broadcast properties *)

BcOpen == {c \in Connections : bc_conn[c].registered}

BcLast(q) == q[Len(q)]

BcQueuesBounded ==
    \A c \in Connections :
        /\ Len(bc_conn[c].events) <= ws_queue_maxsize
        /\ Len(bc_conn[c].market) <= market_ws_queue_maxsize

(* the broadcast that has just run left its message at the tail of every   *)
(* registered queue of its kind, and did not fail                          *)
BcNewestEverywhere ==
    /\ bc_call.op = "broadcast" =>
          /\ ~bc_call.failed
          /\ \A c \in BcOpen :
                bc_conn[c].events # <<>> /\ BcLast(bc_conn[c].events) = bc_call.message
    /\ bc_call.op = "broadcast_market" =>
          /\ ~bc_call.failed
          /\ \A c \in BcOpen :
                bc_conn[c].market # <<>> /\ BcLast(bc_conn[c].market) = bc_call.message

(* a broadcast closes no connection, and changes a queue of its kind by    *)
(* appending the new message, after removing exactly the oldest one if the *)
(* queue was full; the queues of the other kind stay as they are           *)
BcEvictsOldestOnly ==
    /\ bc_call'.op = "broadcast" =>
          \A c \in Connections :
              /\ bc_conn'[c].registered = bc_conn[c].registered
              /\ bc_conn'[c].market = bc_conn[c].market
              /\ bc_conn[c].registered =>
                    bc_conn'[c].events =
                        (IF Len(bc_conn[c].events) = ws_queue_maxsize
                         THEN Append(Tail(bc_conn[c].events), bc_call'.message)
                         ELSE Append(bc_conn[c].events, bc_call'.message))
    /\ bc_call'.op = "broadcast_market" =>
          \A c \in Connections :
              /\ bc_conn'[c].registered = bc_conn[c].registered
              /\ bc_conn'[c].events = bc_conn[c].events
              /\ bc_conn[c].registered =>
                    bc_conn'[c].market =
                        (IF Len(bc_conn[c].market) = market_ws_queue_maxsize
                         THEN Append(Tail(bc_conn[c].market), bc_call'.message)
                         ELSE Append(bc_conn[c].market, bc_call'.message))

(* what a consumer takes from a queue was emitted after everything it was  *)
(* sent from that queue before, and before everything still in the queue   *)
BcEmissionOrder ==
    \A c \in Connections :
        /\ \A i \in 1..Len(bc_conn[c].events) :
              /\ bc_conn[c].events[i] > bc_conn[c].sent_event
              /\ \A j \in 1..Len(bc_conn[c].events) :
                    i < j => bc_conn[c].events[i] < bc_conn[c].events[j]
        /\ \A i \in 1..Len(bc_conn[c].market) :
              bc_conn[c].market[i] > bc_conn[c].sent_market

(* C23: event queues hold at most ws_queue_maxsize messages and market-top *)
(* queues at most one; a broadcast never fails and never waits for a       *)
(* consumer; when a queue is full exactly the oldest message is evicted    *)
(* and the new one enqueued, so after each broadcast the newest message is *)
(* in every registered queue; messages are delivered in emission order.    *)
C23_BroadcastBackPressure ==
    /\ [](BcQueuesBounded /\ BcNewestEverywhere /\ BcEmissionOrder)
    /\ [][BcEvictsOldestOnly]_vars

(* an event broadcast has just found one connection's queue full, evicted  *)
(* its oldest message and enqueued the new one, while the queue of the     *)
(* other connection still had room; nothing had been consumed              *)
C23_Witness ==
    /\ bc_call.op = "broadcast"
    /\ BcOpen = Connections
    /\ \E c \in Connections :
          /\ Len(bc_conn[c].events) = ws_queue_maxsize
          /\ Head(bc_conn[c].events) = 2
          /\ bc_conn[c].sent_event = 0
    /\ \E c \in Connections : Len(bc_conn[c].events) < ws_queue_maxsize

----------------------------------------------------------------------------
(* SpreadEngine: compute_metrics and generate_signal.  Prices are in units *)
(* of 0.01, edges in tenths of a bps, z-scores in tenths.                  *)

(* metrics a caller can hand to generate_signal *)
SeEdges == -15..15
SeZs == -20..20

(* the edge of the opposite direction; the two directional edges of valid  *)
(* BBOs add up to minus the two bid-ask spreads                            *)
SeOtherEdges == {-12, 0, 12}

(* BBOs of the two venues *)
SeQuotes == {[bid |-> 10000, ask |-> 10020], [bid |-> 10001, ask |-> 10019],
             [bid |-> 10022, ask |-> 10042]}

(* _to_bps(value, base), with base given as four times the mid of mids;    *)
(* the quotient is cut to a tenth of a bps, the same way for either sign   *)
_to_bps(value, base4) ==
    IF base4 <= 0 THEN 0
    ELSE IF value >= 0 THEN (value * 400000) \div base4
    ELSE -(((-value) * 400000) \div base4)

(* variant: the second branch forgets the sign *)
signed_edge_unsigned(p, g) ==
    LET base4 == p.bid + p.ask + g.bid + g.ask
        edge_para_to_grvt_bps == _to_bps(g.bid - p.ask, base4)
        edge_grvt_to_para_bps == _to_bps(p.bid - g.ask, base4)
    IN IF edge_para_to_grvt_bps >= edge_grvt_to_para_bps
       THEN edge_para_to_grvt_bps ELSE edge_grvt_to_para_bps

(* compute_metrics: signed_edge *)
signed_edge(p, g) ==
    LET base4 == p.bid + p.ask + g.bid + g.ask
        edge_para_to_grvt_bps == _to_bps(g.bid - p.ask, base4)
        edge_grvt_to_para_bps == _to_bps(p.bid - g.ask, base4)
    IN IF edge_para_to_grvt_bps >= edge_grvt_to_para_bps
       THEN edge_para_to_grvt_bps ELSE -edge_grvt_to_para_bps

(* variant: a full ring turns the new sample away *)
ring_append_keep_oldest(history, x) ==
    LET cap == 2 * (IF ma_window >= std_window THEN ma_window ELSE std_window)
    IN IF Len(history) >= cap THEN history ELSE Append(history, x)

(* deque(maxlen = 2 * max(ma_window, std_window)).append *)
ring_append(history, x) ==
    LET cap == 2 * (IF ma_window >= std_window THEN ma_window ELSE std_window)
        all == Append(history, x)
    IN IF Len(all) > cap THEN SubSeq(all, Len(all) - cap + 1, Len(all)) ELSE all

(* samples[-n:] *)
LastN(samples, n) ==
    IF Len(samples) <= n THEN samples ELSE SubSeq(samples, Len(samples) - n + 1, Len(samples))

RECURSIVE SeqSum(_)
SeqSum(q) == IF q = <<>> THEN 0 ELSE Head(q) + SeqSum(Tail(q))

(* |z| in tenths, cut to a tenth: the largest k with                       *)
(* (k / 10)^2 <= (signed - ma)^2 / std^2; a sample lies at most            *)
(* sqrt(n - 1) population deviations from the mean of its n samples        *)
zscore_abs(e, cm, dev, cs) ==
    CHOOSE k \in 0..(10 * cs) :
        /\ k * k * cm * cm * dev <= 100 * cs * cs * cs * e * e
        /\ (k = 10 * cs
              \/ (k + 1) * (k + 1) * cm * cm * dev > 100 * cs * cs * cs * e * e)

(* variant: without statistics the z-score is far from the mean *)
compute_metrics_no_default(history, p, g) ==
    LET signed == signed_edge(p, g)
        base4 == p.bid + p.ask + g.bid + g.ask
    IN SpreadMetrics(_to_bps(g.bid - p.ask, base4), _to_bps(p.bid - g.ask, base4),
                     signed, 0, 0, 20)

(* compute_metrics: signed_edge from the two directional edges *)
signed_edge_of(edge_para_to_grvt_bps, edge_grvt_to_para_bps) ==
    IF edge_para_to_grvt_bps >= edge_grvt_to_para_bps
    THEN edge_para_to_grvt_bps ELSE -edge_grvt_to_para_bps

(* SpreadEngine.compute_metrics, on the ring after the append *)
compute_metrics(history, p, g) ==
    LET signed == signed_edge(p, g)
        base4 == p.bid + p.ask + g.bid + g.ask
        enough == Len(history) >= min_samples
        ma_samples == LastN(history, ma_window)
        std_samples == LastN(history, std_window)
        cm == Len(ma_samples)
        cs == Len(std_samples)
        ma == IF enough THEN SeqSum(ma_samples) ELSE 0
        dev == IF enough
               THEN SeqSum([i \in 1..cs |->
                        (cs * std_samples[i] - SeqSum(std_samples))
                            * (cs * std_samples[i] - SeqSum(std_samples))])
               ELSE 0
        e == cm * signed - ma
        z == IF dev > 0
             THEN (IF e >= 0 THEN zscore_abs(e, cm, dev, cs)
                   ELSE -zscore_abs(e, cm, dev, cs))
             ELSE 0
    IN SpreadMetrics(_to_bps(g.bid - p.ask, base4), _to_bps(p.bid - g.ask, base4),
                     signed, ma, dev, z)

(* the arguments of generate_signal are drawn from the metrics a caller    *)
(* can build; the ring is empty                                            *)
InitSignal ==
    /\ LoopRestInit
    /\ paradex = 0
    /\ grvt = 0
    /\ live_order_enabled = FALSE
    /\ PlannerParked
    /\ RuntimeParked
    /\ BucketParked
    /\ GuardsParked
    /\ ServicesParkedExcept("signal")
    /\ se_history = <<>>
    /\ se_in = SeNoPair
    /\ \E edge \in SeEdges, other \in SeOtherEdges, z \in SeZs :
          /\ edge + other < 0
          /\ se_metrics = SpreadMetrics(edge, other, signed_edge_of(edge, other), 0,
                                        IF z = 0 THEN 0 ELSE 1, z)
    /\ se_mode = "normal_arb"
    /\ se_signal = HoldNoBook
    /\ se_call = "none"

(* metrics = spread_engine.compute_metrics(symbol, paradex, grvt) *)
SeComputeMetrics ==
    /\ \E p \in SeQuotes, g \in SeQuotes :
          /\ se_history' = ring_append(se_history, signed_edge(p, g))
          /\ se_metrics' = compute_metrics(ring_append(se_history, signed_edge(p, g)), p, g)
          /\ se_in' = <<p, g>>
    /\ se_mode' = "normal_arb"
    /\ se_signal' = HoldNoBook
    /\ se_call' = "compute_metrics"
    /\ UNCHANGED <<loopVars, exceptSignal>>

(* signal = spread_engine.generate_signal(metrics, mode) *)
SeGenerateSignal ==
    /\ \E m \in Modes :
          /\ se_mode' = m
          /\ se_signal' = generate_signal(se_metrics.signed_edge_bps, se_metrics.zscore, m)
    /\ se_call' = "generate_signal"
    /\ UNCHANGED <<loopVars, exceptSignal, se_history, se_in, se_metrics>>

NextSignal ==
    \/ SeComputeMetrics
    \/ SeGenerateSignal

SpecSignal == InitSignal /\ [][NextSignal]_vars

(* Vocabulary of the signal properties *)

SeEdgeAbs == Abs(se_metrics.signed_edge_bps)

SeZAbs == Abs(se_metrics.zscore)

(* the thresholds of the mode *)
SeEntry == IF se_mode = "zero_wear" THEN z_zero_entry ELSE z_entry

SeExit == IF se_mode = "zero_wear" THEN z_zero_exit ELSE z_exit

(* 0.7 * min_edge_bps in zero-wear mode *)
SeMinEdge == IF se_mode = "zero_wear" THEN (7 * min_edge_bps) \div 10 ELSE min_edge_bps

(* the metrics come from a ring that holds min_samples or more samples and *)
(* whose std window holds one value only                                   *)
SeFlatHistory ==
    /\ se_in # SeNoPair
    /\ Len(se_history) >= min_samples
    /\ \A i \in 1..Len(se_history) :
          i > Len(se_history) - std_window => se_history[i] = se_history[Len(se_history)]

(* C24: for all metrics and both modes the action follows the decision     *)
(* table in this order, with the thresholds of the mode:                   *)
(* |signed_edge_bps| < min_edge_bps gives HOLD; otherwise |z| >= z_entry   *)
(* gives OPEN; otherwise |z| <= z_exit gives CLOSE; otherwise HOLD; so no  *)
(* OPEN and no CLOSE comes with |signed_edge_bps| < min_edge_bps.          *)
C24_DecisionTable ==
    se_call = "generate_signal" =>
        /\ se_signal.action =
              (IF SeEdgeAbs < SeMinEdge THEN "hold"
               ELSE IF SeZAbs >= SeEntry THEN "open"
               ELSE IF SeZAbs <= SeExit THEN "close"
               ELSE "hold")
        /\ SeEdgeAbs < SeMinEdge => se_signal.action \notin {"open", "close"}

(* in zero-wear mode an edge between 0.7 * min_edge_bps and min_edge_bps   *)
(* came with a z-score between the exit and the entry threshold: HOLD      *)
C24_Witness ==
    /\ se_call = "generate_signal"
    /\ se_mode = "zero_wear"
    /\ SeEdgeAbs >= SeMinEdge
    /\ SeEdgeAbs < min_edge_bps
    /\ SeZAbs > z_zero_exit
    /\ SeZAbs < z_zero_entry
    /\ se_signal.action = "hold"


(* C25 as stated: with a flat spread history (std = 0, hence z = 0) and    *)
(* |signed_edge_bps| >= min_edge_bps the signal is HOLD.                   *)
C25_Original ==
    (se_call = "generate_signal" /\ SeFlatHistory /\ SeEdgeAbs >= SeMinEdge)
        => se_signal.action = "hold"

(* C25: with a flat spread history std = 0 and z = 0, and with             *)
(* |signed_edge_bps| >= min_edge_bps the signal is CLOSE with the single   *)
(* batch base_order_qty (z_entry > 0 and z_exit >= 0 in both modes): z = 0 *)
(* falls in the row |z| <= z_exit of the decision table.                   *)
C25_FlatHistoryCloses ==
    /\ SeFlatHistory => (se_metrics.std = 0 /\ se_metrics.zscore = 0)
    /\ (se_call = "generate_signal" /\ SeFlatHistory /\ SeEdgeAbs >= SeMinEdge)
          => (se_signal.action = "close" /\ se_signal.batches = <<base_order_qty>>)

(* the ring is full of one value, an edge of more than min_edge_bps in     *)
(* favour of buying on paradex, and the signal for it has been generated   *)
C25_Witness ==
    /\ se_call = "generate_signal"
    /\ SeFlatHistory
    /\ Len(se_history) = 2 * std_window
    /\ se_metrics.signed_edge_bps >= min_edge_bps
    /\ se_signal.action = "close"
    /\ se_signal.direction = "long_paradex_short_grvt"

(* C26 as stated: for every pair of valid BBOs, pairs with equal           *)
(* directional edges included, the signed edge with the venue roles        *)
(* swapped is the negation of the original.                                *)
C26_Original ==
    se_in # SeNoPair =>
        se_metrics.signed_edge_bps = -signed_edge(se_in[2], se_in[1])

(* C26: for every pair of valid BBOs whose two directional edges differ,   *)
(* the signed edge with the venue roles swapped is the negation of the     *)
(* original; when the two directional edges are equal the signed edge is   *)
(* that common edge whichever venue comes first.                           *)
C26_SignedEdgeAntisymmetric ==
    se_in # SeNoPair =>
        /\ se_metrics.edge_para_to_grvt_bps # se_metrics.edge_grvt_to_para_bps
              => se_metrics.signed_edge_bps = -signed_edge(se_in[2], se_in[1])
        /\ se_metrics.edge_para_to_grvt_bps = se_metrics.edge_grvt_to_para_bps
              => /\ se_metrics.signed_edge_bps = se_metrics.edge_para_to_grvt_bps
                 /\ signed_edge(se_in[2], se_in[1]) = se_metrics.edge_para_to_grvt_bps

(* grvt bids above the paradex ask: the edges differ, the signed edge is   *)
(* positive and the swapped pair gives the negative of it                  *)
C26_Witness ==
    /\ se_in # SeNoPair
    /\ se_metrics.edge_para_to_grvt_bps > 0
    /\ se_metrics.edge_grvt_to_para_bps < 0
    /\ se_metrics.signed_edge_bps = se_metrics.edge_para_to_grvt_bps
    /\ signed_edge(se_in[2], se_in[1]) < 0

----------------------------------------------------------------------------
(* NominalSpreadScanner: _fetch_pair_row with the spread history it feeds  *)
(* (_append_market_history_point, _seed_history_from_repository).  The     *)
(* sqlite file is configured and its statements succeed.  Prices are in    *)
(* units of 0.01, fee rates in units of 0.0001, edges in tenths of a bps.  *)

(* max_leverage of the two venues *)
ShLeverages == {<<NoLeverage, 50>>, <<50, NoLeverage>>, <<BadLeverage, 50>>,
                <<20, 50>>, <<50, 100>>, <<250, 300>>, <<0, 300>>}

(* fetch_order_book of the two venues: top of book, or an exception *)
ShDepths ==
    {[status |-> "ok", paradex_bid |-> 5000, paradex_ask |-> 5002,
      grvt_bid |-> 4990, grvt_ask |-> 4992],
     [status |-> "ok", paradex_bid |-> 5000, paradex_ask |-> 5002,
      grvt_bid |-> 4999, grvt_ask |-> 5003],
     [status |-> "ok", paradex_bid |-> 5000, paradex_ask |-> 5004,
      grvt_bid |-> 5001, grvt_ask |-> 5003],
     [status |-> "ok", paradex_bid |-> 5002, paradex_ask |-> 5000,
      grvt_bid |-> 4990, grvt_ask |-> 4992],
     [status |-> "paradex_error", paradex_bid |-> 0, paradex_ask |-> 0,
      grvt_bid |-> 0, grvt_ask |-> 0]}

(* the callers of _append_market_history_point and the edges they store *)
ShSources == {"scanner", "ohlcv_backfill"}
ShValues == {-160, -60}

(* variant: the leverage is taken as the venue reports it *)
_sanitize_leverage_unclamped(raw) == raw

(* _sanitize_leverage: the leverage clamped to [1, 200] *)
_sanitize_leverage(raw) ==
    IF raw < leverage_floor THEN leverage_floor
    ELSE IF raw > leverage_cap THEN leverage_cap
    ELSE raw

(* _resolve_effective_leverage; NoLeverage stands for None *)
_resolve_effective_leverage(paradex_max_leverage, grvt_max_leverage) ==
    IF paradex_max_leverage = NoLeverage \/ grvt_max_leverage = NoLeverage THEN NoLeverage
    ELSE IF paradex_max_leverage = BadLeverage \/ grvt_max_leverage = BadLeverage
    THEN NoLeverage
    ELSE Min(_sanitize_leverage(paradex_max_leverage), _sanitize_leverage(grvt_max_leverage))

(* deque(maxlen = history_retention).append *)
history_append(history, value) ==
    LET all == Append(history, value)
    IN IF Len(all) > history_retention
       THEN SubSeq(all, Len(all) - history_retention + 1, Len(all))
       ELSE all

(* the rows of a symbol, in id order *)
RowsOf(store, symbol) == SelectSeq(store, LAMBDA r : r.symbol = symbol)

(* DELETE ... WHERE symbol = ? AND id NOT IN (the max_rows largest ids of  *)
(* the symbol)                                                             *)
trim_market_spread_history(store, symbol, max_rows) ==
    LET mine == {i \in 1..Len(store) : store[i].symbol = symbol}
        kept == {i \in 1..Len(store) :
                    \/ store[i].symbol # symbol
                    \/ Cardinality({j \in mine : j > i}) < max_rows}
        RECURSIVE Pick(_)
        Pick(i) == IF i > Len(store) THEN <<>>
                   ELSE IF i \in kept THEN <<store[i]>> \o Pick(i + 1)
                   ELSE Pick(i + 1)
    IN Pick(1)

(* variant: a point whose (symbol, ts, source) is stored replaces the row *)
_append_market_history_point_replace(st, symbol, value, ts, source) ==
    LET row == [symbol |-> symbol, ts |-> ts, source |-> source, value |-> value]
        others == SelectSeq(st.store,
                      LAMBDA r : ~(r.symbol = symbol /\ r.ts = ts /\ r.source = source))
        current_count == st.counter[symbol] + 1
        stored == Append(others, row)
    IN [store |-> IF current_count % history_trim_every # 0 THEN stored
                  ELSE trim_market_spread_history(stored, symbol, history_retention),
        memory |-> [st.memory EXCEPT ![symbol] = history_append(@, value)],
        counter |-> [st.counter EXCEPT ![symbol] = current_count],
        inserted |-> TRUE]

(* _append_market_history_point: INSERT OR IGNORE under the unique index   *)
(* on (symbol, ts, source); a row that was inserted is appended to the     *)
(* in-memory history and counted, and every history_trim_every-th one      *)
(* trims the symbol                                                        *)
_append_market_history_point(st, symbol, value, ts, source) ==
    LET row == [symbol |-> symbol, ts |-> ts, source |-> source, value |-> value]
        inserted == ~\E i \in 1..Len(st.store) :
                        /\ st.store[i].symbol = symbol
                        /\ st.store[i].ts = ts
                        /\ st.store[i].source = source
        current_count == st.counter[symbol] + 1
        stored == Append(st.store, row)
    IN IF ~inserted
       THEN [store |-> st.store, memory |-> st.memory, counter |-> st.counter,
             inserted |-> FALSE]
       ELSE [store |-> IF current_count % history_trim_every # 0 THEN stored
                       ELSE trim_market_spread_history(stored, symbol, history_retention),
             memory |-> [st.memory EXCEPT ![symbol] = history_append(@, value)],
             counter |-> [st.counter EXCEPT ![symbol] = current_count],
             inserted |-> TRUE]

RECURSIVE AppendAll(_, _)
AppendAll(history, rows) ==
    IF rows = <<>> THEN history
    ELSE AppendAll(history_append(history, Head(rows).value), Tail(rows))

(* _seed_history_from_repository, for a store that holds market history or *)
(* nothing for the symbol: the history_retention newest rows, oldest first *)
_seed_history_from_repository(memory, seeded, store, symbol) ==
    IF symbol \in seeded THEN memory
    ELSE LET mine == RowsOf(store, symbol)
             newest == IF Len(mine) > history_retention
                       THEN SubSeq(mine, Len(mine) - history_retention + 1, Len(mine))
                       ELSE mine
         IN [memory EXCEPT ![symbol] = AppendAll(@, newest)]

(* _fetch_pair_row: the row or the skip reason, and the history it leaves  *)
_fetch_pair_row(st, symbol, paradex_max_leverage, grvt_max_leverage, depth, now) ==
    LET effective_leverage ==
            _resolve_effective_leverage(paradex_max_leverage, grvt_max_leverage)
        skip(reason) == [row |-> NoRow, reason |-> reason, st |-> st,
                         fetched |-> FALSE, appended |-> FALSE, inserted |-> FALSE,
                         value |-> 0]
        early(reason) == [row |-> NoRow, reason |-> reason, st |-> st,
                          fetched |-> TRUE, appended |-> FALSE, inserted |-> FALSE,
                          value |-> 0]
        base4 == depth.paradex_bid + depth.paradex_ask + depth.grvt_bid + depth.grvt_ask
        edge_para_to_grvt_bps == _to_bps(depth.grvt_bid - depth.paradex_ask, base4)
        edge_grvt_to_para_bps == _to_bps(depth.paradex_bid - depth.grvt_ask, base4)
        signed_edge_bps == IF edge_para_to_grvt_bps >= edge_grvt_to_para_bps
                           THEN edge_para_to_grvt_bps ELSE -edge_grvt_to_para_bps
        after == _append_market_history_point(st, symbol, signed_edge_bps, now, "scanner")
        left == [store |-> after.store, memory |-> after.memory, counter |-> after.counter]
        edge_sell_paradex_buy_grvt == depth.paradex_bid - depth.grvt_bid
        edge_buy_paradex_sell_grvt == depth.grvt_ask - depth.paradex_ask
        tradable_edge_price == IF edge_sell_paradex_buy_grvt >= edge_buy_paradex_sell_grvt
                               THEN edge_sell_paradex_buy_grvt
                               ELSE edge_buy_paradex_sell_grvt
        \* gross - fee, in units of 1/40000 of a price unit
        net_nominal_spread ==
            tradable_edge_price * effective_leverage * 40000
                - base4 * effective_leverage * (paradex_taker_fee + grvt_maker_fee)
        late(row, reason) == [row |-> row, reason |-> reason, st |-> left,
                              fetched |-> TRUE, appended |-> TRUE,
                              inserted |-> after.inserted,
                              value |-> signed_edge_bps]
    IN IF paradex_max_leverage = NoLeverage THEN skip("paradex_leverage_missing")
       ELSE IF grvt_max_leverage = NoLeverage THEN skip("grvt_leverage_missing")
       ELSE IF effective_leverage = NoLeverage THEN skip("invalid_leverage")
       ELSE IF effective_leverage < min_effective_leverage
       THEN skip("effective_leverage_below_50x")
       ELSE IF depth.status = "paradex_error" THEN early("paradex_orderbook_error")
       ELSE IF depth.status = "grvt_error" THEN early("grvt_orderbook_error")
       ELSE IF \/ depth.paradex_bid <= 0 \/ depth.paradex_ask <= 0
               \/ depth.grvt_bid <= 0 \/ depth.grvt_ask <= 0
               \/ depth.paradex_bid >= depth.paradex_ask
               \/ depth.grvt_bid >= depth.grvt_ask
       THEN early("invalid_bbo")
       ELSE IF tradable_edge_price <= 0 THEN late(NoRow, "edge_not_positive")
       ELSE IF net_nominal_spread <= 0 THEN late(NoRow, "net_spread_not_positive")
       ELSE late([symbol |-> symbol, effective_leverage |-> effective_leverage,
                  tradable_edge_price |-> tradable_edge_price,
                  net_nominal_spread |-> net_nominal_spread,
                  direction |-> IF tradable_edge_price = edge_sell_paradex_buy_grvt
                                THEN "sell_paradex_taker_buy_grvt_maker"
                                ELSE "buy_paradex_taker_sell_grvt_maker"],
                 "none")

ShState == [store |-> sh_store, memory |-> sh_memory, counter |-> sh_counter]

InitScanRow ==
    /\ LoopRestInit
    /\ paradex = 0
    /\ grvt = 0
    /\ live_order_enabled = FALSE
    /\ PlannerParked
    /\ RuntimeParked
    /\ BucketParked
    /\ GuardsParked
    /\ ServicesParked

(* row, reason = await self._fetch_pair_row(...), with the _compute_zscore *)
(* it runs after the append, which seeds the symbol's history              *)
ShFetchPairRow ==
    /\ \E s \in ScSymbols, lev \in ShLeverages, depth \in ShDepths :
          LET r == _fetch_pair_row(ShState, s, lev[1], lev[2], depth, sh_now)
          IN /\ r.inserted => sh_points < MaxPoints
             /\ sh_store' = r.st.store
             /\ sh_counter' = r.st.counter
             /\ sh_memory' = IF r.appended
                             THEN _seed_history_from_repository(
                                      r.st.memory, sh_seeded, r.st.store, s)
                             ELSE r.st.memory
             /\ sh_seeded' = IF r.appended THEN sh_seeded \cup {s} ELSE sh_seeded
             /\ sh_points' = IF r.inserted THEN sh_points + 1 ELSE sh_points
             /\ sh_row' = [symbol |-> s, paradex_max_leverage |-> lev[1],
                           grvt_max_leverage |-> lev[2],
                           depth |-> IF r.fetched THEN depth ELSE NoDepth,
                           row |-> r.row, reason |-> r.reason]
             /\ sh_call' = IF r.appended
                           THEN [op |-> "append", symbol |-> s, ts |-> sh_now,
                                 source |-> "scanner", value |-> r.value,
                                 inserted |-> r.inserted]
                           ELSE NoAppend
    /\ UNCHANGED <<loopVars, exceptRow, sh_now>>

(* self._append_market_history_point(...): the scanner stores the edge of  *)
(* the moment, the k-line backfill the edges of earlier moments            *)
ShAppendPoint ==
    /\ \E s \in ScSymbols, ts \in 0..sh_now, source \in ShSources, value \in ShValues :
          LET r == _append_market_history_point(ShState, s, value, ts, source)
          IN /\ source = "scanner" => ts = sh_now
             /\ r.inserted => sh_points < MaxPoints
             /\ sh_store' = r.store
             /\ sh_memory' = r.memory
             /\ sh_counter' = r.counter
             /\ sh_points' = IF r.inserted THEN sh_points + 1 ELSE sh_points
             /\ sh_call' = [op |-> "append", symbol |-> s, ts |-> ts, source |-> source,
                            value |-> value, inserted |-> r.inserted]
    /\ sh_row' = NoPairCall
    /\ UNCHANGED <<loopVars, exceptRow, sh_seeded, sh_now>>

(* self._seed_history_from_repository(symbol) of the backfill and of the   *)
(* warm-up progress                                                        *)
ShSeed ==
    /\ \E s \in ScSymbols :
          /\ s \notin sh_seeded
          /\ sh_memory' = _seed_history_from_repository(sh_memory, sh_seeded, sh_store, s)
          /\ sh_seeded' = sh_seeded \cup {s}
    /\ sh_row' = NoPairCall
    /\ sh_call' = NoAppend
    /\ UNCHANGED <<loopVars, exceptRow, sh_store, sh_counter, sh_now, sh_points>>

(* the wall clock advances *)
ShTick ==
    /\ sh_now < MaxHistoryTime
    /\ sh_now' = sh_now + 1
    /\ sh_row' = NoPairCall
    /\ sh_call' = NoAppend
    /\ UNCHANGED <<loopVars, exceptRow, sh_store, sh_memory, sh_counter, sh_seeded,
                   sh_points>>

NextScanRow ==
    \/ ShFetchPairRow
    \/ ShSeed
    \/ ShTick

SpecScanRow == InitScanRow /\ [][NextScanRow]_vars

NextScanHistory ==
    \/ ShAppendPoint
    \/ ShTick

SpecScanHistory == InitScanRow /\ [][NextScanHistory]_vars

(* Vocabulary of the scanner-row properties *)

(* clamp(x, 1, 200) *)
ShClamp(x) == IF x < 1 THEN 1 ELSE IF x > 200 THEN 200 ELSE x

ShEffective ==
    Min(ShClamp(sh_row.paradex_max_leverage), ShClamp(sh_row.grvt_max_leverage))

ShHasLeverage ==
    /\ sh_row.symbol # "none"
    /\ sh_row.paradex_max_leverage >= 0
    /\ sh_row.grvt_max_leverage >= 0

(* C27: every row the scanner produces has net_nominal_spread > 0,         *)
(* tradable_edge_price > 0 and effective_leverage >= 50, where             *)
(* effective_leverage = min(clamp(A.max_lev, 1, 200),                      *)
(* clamp(B.max_lev, 1, 200)); a pair whose effective leverage is exactly   *)
(* 50 is not rejected for its leverage, and a pair below 50 is skipped     *)
(* with the leverage-below-target reason.                                  *)
C27_ScannerRows ==
    /\ sh_row.row # NoRow =>
          /\ sh_row.row.net_nominal_spread > 0
          /\ sh_row.row.tradable_edge_price > 0
          /\ sh_row.row.effective_leverage >= 50
          /\ ShHasLeverage
          /\ sh_row.row.effective_leverage = ShEffective
    /\ (ShHasLeverage /\ ShEffective < 50) =>
          (sh_row.row = NoRow /\ sh_row.reason = "effective_leverage_below_50x")
    /\ (ShHasLeverage /\ ShEffective >= 50) =>
          sh_row.reason # "effective_leverage_below_50x"

(* a pair with maximum leverages 50 and 100 and a price gap above the fees *)
(* was kept, with effective leverage 50                                    *)
C27_Witness ==
    /\ sh_row.row # NoRow
    /\ sh_row.paradex_max_leverage = 50
    /\ sh_row.grvt_max_leverage = 100
    /\ sh_row.row.effective_leverage = 50
    /\ sh_row.row.direction = "sell_paradex_taker_buy_grvt_maker"

(* Vocabulary of the spread-history properties *)

ShKey(r) == <<r.symbol, r.ts, r.source>>

ShSymbolRows(store, symbol) ==
    LET RECURSIVE Keep(_)
        Keep(rows) == IF rows = <<>> THEN <<>>
                      ELSE IF Head(rows).symbol = symbol
                      THEN <<Head(rows)>> \o Keep(Tail(rows))
                      ELSE Keep(Tail(rows))
    IN Keep(store)

ShUniqueKeys ==
    \A i, j \in 1..Len(sh_store) : ShKey(sh_store[i]) = ShKey(sh_store[j]) => i = j

(* the step is a call of _append_market_history_point *)
ShAppended == sh_call'.op = "append"

ShDuplicate == \E i \in 1..Len(sh_store) : ShKey(sh_store[i]) = ShKey(sh_call')

ShNewRow == [symbol |-> sh_call'.symbol, ts |-> sh_call'.ts,
             source |-> sh_call'.source, value |-> sh_call'.value]

ShMostRecent(rows, n) ==
    IF Len(rows) > n THEN SubSeq(rows, Len(rows) - n + 1, Len(rows)) ELSE rows

ShDuplicateIgnored ==
    (ShAppended /\ ShDuplicate) =>
        /\ sh_store' = sh_store
        /\ sh_call'.inserted = FALSE
        /\ sh_memory' = sh_memory
        /\ sh_counter' = sh_counter

ShInsertCounted ==
    (ShAppended /\ ~ShDuplicate) =>
        /\ sh_call'.inserted = TRUE
        /\ sh_counter' = [sh_counter EXCEPT ![sh_call'.symbol] = @ + 1]
        /\ \A s \in ScSymbols \ {sh_call'.symbol} :
              ShSymbolRows(sh_store', s) = ShSymbolRows(sh_store, s)
        /\ LET mine == Append(ShSymbolRows(sh_store, sh_call'.symbol), ShNewRow)
           IN IF sh_counter'[sh_call'.symbol] % history_trim_every = 0
              THEN /\ ShSymbolRows(sh_store', sh_call'.symbol)
                          = ShMostRecent(mine, history_retention)
                   /\ Len(ShSymbolRows(sh_store', sh_call'.symbol)) <= history_retention
              ELSE sh_store' = Append(sh_store, ShNewRow)

----------------------------------------------------------------------------
(* NominalSpreadScanner: get_top_spreads over _ensure_cache and            *)
(* _refresh_once.  _scan_all_symbols is taken by its outcome: the rows it  *)
(* returns with the warm-up readiness they give, or the exception it       *)
(* raises; the history it writes on the way is the subject of SpecScanRow. *)

(* the ranked rows a scan can return *)
ScRowSets == {<<>>, <<"BTC-PERP">>, <<"ETH-PERP", "BTC-PERP">>}

(* str(exc) of the exceptions a scan can raise *)
ScMessages == {"", "timeout", "non-hexadecimal digit found"}

ScOutcomes ==
    [kind : {"rows"}, rows : ScRowSets, ready : BOOLEAN, message : {""}]
        \cup [kind : {"raises"}, rows : {<<>>}, ready : {FALSE}, message : ScMessages]

(* the number of pairs both venues list with enough leverage *)
ScPairCounts == {0, MaxPairs}

(* variant: every task starts fetching at once *)
spawn_fetches_unbounded(pairs, permits) == Fetches("pool", 0, pairs, 0, pairs)

(* gather(fetch_one(base) ...): the first tasks take the permits of the    *)
(* semaphore and the others wait on it                                     *)
spawn_fetches(pairs, permits) ==
    Fetches("pool", pairs - Min(pairs, permits), Min(pairs, permits), 0,
            Min(pairs, permits))

(* variant: the age of the cache is counted from the start of the clock *)
cache_valid_since_start(force_refresh, cache, now) ==
    /\ ~force_refresh
    /\ cache.rows # <<>>
    /\ now < scan_interval_sec

(* the test of _ensure_cache, made before and after taking the lock *)
cache_valid(force_refresh, cache, now) ==
    /\ ~force_refresh
    /\ cache.rows # <<>>
    /\ (now - cache.last_refresh_monotonic) < scan_interval_sec

(* "扫描失败: {raw_message or '未知异常'}", with the hint that replaces  *)
(* the message of a malformed GRVT key                                     *)
scan_error(message) ==
    [text |-> "scan failed",
     detail |-> IF message = "non-hexadecimal digit found"
                THEN "GRVT private_key must be a hexadecimal string"
                ELSE IF message = "" THEN "unknown exception"
                ELSE message]

(* variant: a failed scan empties the cache *)
_refresh_once_drops_rows(cache, outcome, now) ==
    [rows |-> IF outcome.kind = "rows" THEN outcome.rows ELSE <<>>,
     last_refresh_monotonic |-> now,
     last_error |-> IF outcome.kind = "rows" THEN NoScanError
                    ELSE scan_error(outcome.message),
     warmup_done |-> outcome.kind = "rows" /\ outcome.ready]

(* _refresh_once: the cache after a scan that returned or raised *)
_refresh_once(cache, outcome, now) ==
    IF outcome.kind = "rows"
    THEN [rows |-> outcome.rows,
          last_refresh_monotonic |-> now,
          last_error |-> NoScanError,
          warmup_done |-> outcome.ready]
    ELSE [rows |-> cache.rows,
          last_refresh_monotonic |-> now,
          last_error |-> scan_error(outcome.message),
          warmup_done |-> FALSE]

InitCache ==
    /\ LoopRestInit
    /\ paradex = 0
    /\ grvt = 0
    /\ live_order_enabled = FALSE
    /\ PlannerParked
    /\ RuntimeParked
    /\ BucketParked
    /\ GuardsParked
    /\ ServicesParked

(* get_top_spreads(force_refresh) up to its first suspension: answered     *)
(* from the cache, or the lock is free and the scan starts, or the request *)
(* queues for the lock                                                     *)
ScRequest ==
    \E q \in ScRequests, force_refresh \in BOOLEAN :
        /\ sc_pc[q] = "idle"
        /\ IF cache_valid(force_refresh, sc_cache, sc_now)
           THEN /\ sc_call' = [op |-> "cached", request |-> q, forced |-> force_refresh,
                               rows |-> sc_cache.rows, waited |-> FALSE, raised |-> FALSE]
                /\ UNCHANGED <<sc_pc, sc_lock, sc_scans, sc_arrival, sc_fetches>>
           ELSE IF sc_lock = "none"
           THEN /\ sc_scans < MaxScans
                /\ sc_pc' = [sc_pc EXCEPT ![q] = "scanning"]
                /\ sc_lock' = q
                /\ sc_scans' = sc_scans + 1
                /\ sc_call' = [op |-> "scan", request |-> q, forced |-> force_refresh,
                               rows |-> <<>>, waited |-> FALSE, raised |-> FALSE]
                /\ sc_fetches' = Fetches("markets", 0, 0, 0, 0)
                /\ UNCHANGED sc_arrival
           ELSE /\ sc_pc' = [sc_pc EXCEPT ![q] = "waiting"]
                /\ sc_arrival' = [sc_arrival EXCEPT ![q] =
                                      [at |-> sc_now, forced |-> force_refresh,
                                       finished |-> sc_finished, rows |-> sc_cache.rows]]
                /\ sc_call' = [op |-> "wait", request |-> q, forced |-> force_refresh,
                               rows |-> <<>>, waited |-> FALSE, raised |-> FALSE]
                /\ UNCHANGED <<sc_lock, sc_scans, sc_fetches>>
        /\ UNCHANGED <<loopVars, exceptCache, sc_cache, sc_now, sc_finished, sc_semaphore>>

(* async with self._lock, then the test again: answered from the cache, or *)
(* the scan starts                                                         *)
ScAcquire ==
    \E q \in ScRequests :
        /\ sc_pc[q] = "waiting"
        /\ sc_lock = "none"
        /\ IF cache_valid(sc_arrival[q].forced, sc_cache, sc_now)
           THEN /\ sc_pc' = [sc_pc EXCEPT ![q] = "idle"]
                /\ sc_call' = [op |-> "cached", request |-> q,
                               forced |-> sc_arrival[q].forced,
                               rows |-> sc_cache.rows, waited |-> TRUE, raised |-> FALSE]
                /\ UNCHANGED <<sc_lock, sc_scans, sc_fetches>>
           ELSE /\ sc_scans < MaxScans
                /\ sc_pc' = [sc_pc EXCEPT ![q] = "scanning"]
                /\ sc_lock' = q
                /\ sc_scans' = sc_scans + 1
                /\ sc_call' = [op |-> "scan", request |-> q,
                               forced |-> sc_arrival[q].forced,
                               rows |-> <<>>, waited |-> TRUE, raised |-> FALSE]
                /\ sc_fetches' = Fetches("markets", 0, 0, 0, 0)
        /\ sc_arrival' = [sc_arrival EXCEPT ![q] = NoArrival]
        /\ UNCHANGED <<loopVars, exceptCache, sc_cache, sc_now, sc_finished, sc_semaphore>>

(* _scan_all_symbols up to gather(fetch_one ...): the semaphore is made and *)
(* every task runs up to its first suspension                              *)
ScSpawnFetches ==
    \E q \in ScRequests, pairs \in ScPairCounts :
        /\ sc_pc[q] = "scanning"
        /\ sc_fetches.phase = "markets"
        /\ sc_fetches' = spawn_fetches(pairs, fetch_permits)
        /\ sc_semaphore' = fetch_permits - sc_fetches'.fetching
        /\ sc_call' = [op |-> "spawn", request |-> q, forced |-> FALSE, rows |-> <<>>,
                       waited |-> FALSE, raised |-> FALSE]
        /\ UNCHANGED <<loopVars, exceptCache, sc_cache, sc_lock, sc_pc, sc_now, sc_scans,
                       sc_arrival, sc_finished>>

(* _fetch_pair_row returns in one task, which leaves the semaphore *)
ScFetchReturns ==
    /\ sc_fetches.phase = "pool"
    /\ sc_fetches.fetching > 0
    /\ sc_fetches' = [sc_fetches EXCEPT !.fetching = @ - 1, !.done = @ + 1]
    /\ sc_semaphore' = sc_semaphore + 1
    /\ sc_call' = [NoCacheCall EXCEPT !.op = "fetched"]
    /\ UNCHANGED <<loopVars, exceptCache, sc_cache, sc_lock, sc_pc, sc_now, sc_scans,
                   sc_arrival, sc_finished>>

(* a task that waited on the semaphore enters and calls _fetch_pair_row *)
ScFetchAcquire ==
    /\ sc_fetches.phase = "pool"
    /\ sc_fetches.queued > 0
    /\ sc_semaphore > 0
    /\ sc_fetches' = [sc_fetches EXCEPT
                         !.queued = @ - 1,
                         !.fetching = @ + 1,
                         !.peak = IF @ > sc_fetches.fetching THEN @
                                  ELSE sc_fetches.fetching + 1]
    /\ sc_semaphore' = sc_semaphore - 1
    /\ sc_call' = [NoCacheCall EXCEPT !.op = "fetching"]
    /\ UNCHANGED <<loopVars, exceptCache, sc_cache, sc_lock, sc_pc, sc_now, sc_scans,
                   sc_arrival, sc_finished>>

(* the scan returns, every task having returned, or raises before the      *)
(* tasks exist: the rest of _refresh_once, the release of the lock and the *)
(* answer of get_top_spreads                                               *)
ScRefreshOnce ==
    \E q \in ScRequests, outcome \in ScOutcomes :
        /\ sc_pc[q] = "scanning"
        /\ IF outcome.kind = "rows"
           THEN /\ sc_fetches.phase = "pool"
                /\ sc_fetches.queued = 0
                /\ sc_fetches.fetching = 0
                /\ Len(outcome.rows) <= sc_fetches.done
           ELSE sc_fetches.phase = "markets"
        /\ sc_fetches' = [sc_fetches EXCEPT !.phase = "idle"]
        /\ sc_cache' = _refresh_once(sc_cache, outcome, sc_now)
        /\ sc_lock' = "none"
        /\ sc_pc' = [sc_pc EXCEPT ![q] = "idle"]
        /\ sc_finished' = sc_now
        /\ sc_call' = [op |-> IF outcome.kind = "rows" THEN "scanned" ELSE "scan_raised",
                       request |-> q, forced |-> FALSE, rows |-> sc_cache'.rows,
                       waited |-> FALSE, raised |-> FALSE]
        /\ UNCHANGED <<loopVars, exceptCache, sc_now, sc_scans, sc_arrival, sc_semaphore>>

(* the monotonic clock advances *)
ScTick ==
    /\ sc_now < ScEpoch + MaxScanTime
    /\ sc_now' = sc_now + 1
    /\ sc_call' = NoCacheCall
    /\ UNCHANGED <<loopVars, exceptCache, sc_cache, sc_lock, sc_pc, sc_scans, sc_arrival,
                   sc_finished, sc_fetches, sc_semaphore>>

NextCache ==
    \/ ScRequest
    \/ ScAcquire
    \/ ScSpawnFetches
    \/ ScFetchReturns
    \/ ScFetchAcquire
    \/ ScRefreshOnce
    \/ ScTick

SpecCache == InitCache /\ [][NextCache]_vars

(* Vocabulary of the scan-cache properties *)

(* request q starts a venue scan in this step *)
ScStartsScan(q) == sc_pc[q] # "scanning" /\ sc_pc'[q] = "scanning"

(* request q arrives in this step *)
ScArrives(q) ==
    /\ sc_pc[q] = "idle"
    /\ sc_call'.request = q
    /\ sc_call'.op \in {"cached", "scan", "wait"}

(* what request q found when it arrived: the time, whether it was forced,  *)
(* when the previous refresh had finished and the rows then cached         *)
ScFound(q) ==
    IF sc_pc[q] = "waiting" THEN sc_arrival[q]
    ELSE [at |-> sc_now, forced |-> sc_call'.forced, finished |-> sc_finished,
          rows |-> sc_cache.rows]

(* q arrived less than scan_interval_sec after the previous refresh finished *)
ScArrivedInInterval(a) == a.finished >= 0 /\ a.at - a.finished < scan_interval_sec

ScAnsweredFromCache(q) ==
    /\ sc_call'.op = "cached"
    /\ sc_call'.request = q
    /\ sc_call'.rows = sc_cache.rows
    /\ sc_scans' = sc_scans
    /\ sc_cache' = sc_cache
    /\ sc_pc'[q] = "idle"

ScScanRaised == sc_call'.op = "scan_raised"
ScScanReturned == sc_call'.op = "scanned"

(* C29: when a scan raises, the cached rows are left exactly as they were, *)
(* last_error is set to a non-empty message describing the failure and the *)
(* warm-up status is done = false; the exception does not propagate to the *)
(* caller of top-spreads, who is answered with the cached rows; a later    *)
(* successful refresh clears last_error.                                   *)
C29_ScanFailure ==
    [][/\ ScScanRaised =>
            /\ sc_cache'.rows = sc_cache.rows
            /\ sc_cache'.last_error.text # ""
            /\ sc_cache'.last_error.detail # ""
            /\ sc_cache'.warmup_done = FALSE
            /\ sc_call'.raised = FALSE
            /\ sc_call'.rows = sc_cache.rows
            /\ sc_pc'[sc_call'.request] = "idle"
            /\ sc_lock' = "none"
       /\ ScScanReturned => sc_cache'.last_error = NoScanError]_vars

(* a scan raised an exception without a message over a cache that held     *)
(* rows and had finished its warm-up                                       *)
C29_Witness ==
    /\ sc_call.op = "scan_raised"
    /\ sc_cache.rows = <<"ETH-PERP", "BTC-PERP">>
    /\ sc_cache.last_error.detail = "unknown exception"
    /\ sc_cache.warmup_done = FALSE

----------------------------------------------------------------------------
(* Vocabulary of the OPEN gating property *)

(* the latest engine call was execute_signal with an OPEN signal, and it   *)
(* has returned                                                            *)
OgOpenReturned == entry.kind = "open" /\ op = "idle" /\ pc \in {"done", "error"}

OgUnderCap == Abs(entry.paradex) <= max_position /\ Abs(entry.grvt) <= max_position

OgNothingDone ==
    /\ report.attempted_orders = 0
    /\ log = <<>>
    /\ paradex = entry.paradex
    /\ grvt = entry.grvt

OgFirstFailure ==
    OgOpenReturned =>
        IF ~entry.live
        THEN /\ report.message = "live_disabled"
             /\ report.failed_orders = 0
             /\ OgNothingDone
        ELSE IF ~can_open
        THEN report.message = "risk_blocked" /\ OgNothingDone
        ELSE IF ~OgUnderCap
        THEN report.message = "max_position" /\ OgNothingDone
        ELSE report.message = "open_done"

(* execute_signal is entered with an OPEN signal that one of the three     *)
(* checks refuses                                                          *)
OgRefusedStep ==
    /\ pc = "exec"
    /\ signal.action = "open"
    /\ entry'.kind = "open"
    /\ calls' # calls
    /\ \/ ~live_order_enabled
       \/ ~can_open
       \/ ~(Abs(paradex) <= max_position /\ Abs(grvt) <= max_position)

OgNoSideEffect ==
    OgRefusedStep =>
        /\ tokens' = tokens
        /\ submitted' = submitted
        /\ paradex' = paradex
        /\ grvt' = grvt
        /\ op' = "idle"

(* C31: the OPEN path tests live_enabled, then can_open, then the position *)
(* cap (|leg_A| <= max_position and |leg_B| <= max_position); the report   *)
(* names the first test that fails (live disabled: attempted 0, failed 0;  *)
(* risk gate or position cap: attempted 0 and a message), and when one of  *)
(* the three fails no limiter token is consumed, no adapter is called and  *)
(* the ledger is unchanged.                                                *)
C31_OpenGatingPrecedence ==
    /\ []OgFirstFailure
    /\ [][OgNoSideEffect]_vars

(* an OPEN was refused by the risk gate although a leg was also above the  *)
(* position cap                                                            *)
C31_Witness ==
    /\ OgOpenReturned
    /\ entry.live
    /\ ~can_open
    /\ ~OgUnderCap
    /\ report.message = "risk_blocked"

----------------------------------------------------------------------------
(* Vocabulary of the warm-up property of the spread statistics *)

SeRingCap == 2 * (IF ma_window >= std_window THEN ma_window ELSE std_window)

(* the step is a call of compute_metrics *)
SeComputed == se_call' = "compute_metrics"

(* the ring after the step: the ring before it with the new sample behind, *)
(* less its oldest sample when that makes more than the capacity           *)
SeRingSlides ==
    SeComputed =>
        LET all == Append(se_history, se_metrics'.signed_edge_bps)
        IN se_history' = IF Len(all) > SeRingCap THEN Tail(all) ELSE all

SeWarmUp ==
    /\ Len(se_history) <= SeRingCap
    /\ (se_in # SeNoPair /\ Len(se_history) < min_samples) =>
          (se_metrics.ma = 0 /\ se_metrics.std = 0 /\ se_metrics.zscore = 0)
    /\ (se_in # SeNoPair /\ se_metrics.std = 0) => se_metrics.zscore = 0

(* C32: the per-symbol ring never holds more than                          *)
(* 2 * max(ma_window, std_window) samples and always holds the most recent *)
(* ones in arrival order; in every compute call, a ring that holds fewer   *)
(* than min_samples samples after the append gives (ma, std, z) =          *)
(* (0, 0, 0), and std = 0 implies z = 0.                                   *)
C32_SpreadWarmUp ==
    /\ []SeWarmUp
    /\ [][SeRingSlides]_vars

(* the ring is full of samples that differ and the newest one lies off the *)
(* mean: std > 0 and z # 0                                                 *)
C32_Witness ==
    /\ se_call = "compute_metrics"
    /\ Len(se_history) = SeRingCap
    /\ se_history[1] # se_history[SeRingCap]
    /\ se_metrics.signed_edge_bps = se_history[SeRingCap]
    /\ se_metrics.std > 0
    /\ se_metrics.zscore # 0

----------------------------------------------------------------------------
(* the directional edge of the direction a signal names *)
SeDirectionalEdge ==
    IF se_signal.direction = "long_paradex_short_grvt"
    THEN se_metrics.edge_para_to_grvt_bps
    ELSE se_metrics.edge_grvt_to_para_bps

(* C33: the sign of the signed edge names the profitable direction:        *)
(* whenever generate_signal returns OPEN with direction d, the directional *)
(* edge of d (edge_AtoB_bps for LONG_A_SHORT_B, edge_BtoA_bps for          *)
(* LONG_B_SHORT_A) is positive and at least the mode's min_edge_bps; no    *)
(* OPEN is produced for a BBO pair whose two directional edges are both    *)
(* negative.                                                               *)
C33_OpenNamesProfitableDirection ==
    (se_call = "generate_signal" /\ se_signal.action = "open") =>
        /\ SeDirectionalEdge > 0
        /\ SeDirectionalEdge >= SeMinEdge
        /\ ~(se_metrics.edge_para_to_grvt_bps < 0 /\ se_metrics.edge_grvt_to_para_bps < 0)

----------------------------------------------------------------------------
(* PositionManager as a ledger of several symbols                          *)

(* the fills applied: venue, symbol, side and quantity *)
PmQuantities == {3, 5}

TradeFill(exchange, symbol, side, quantity) ==
    [exchange |-> exchange, symbol |-> symbol, side |-> side, quantity |-> quantity]

PmFills ==
    {TradeFill(e, s, d, q) : e \in {"paradex", "grvt"}, s \in PmSymbols,
                             d \in {"buy", "sell"}, q \in PmQuantities}

(* what set_positions is given *)
PmPositions == {<<10, -6>>}

(* PositionManager.apply_fill(fill) on the whole dictionary *)
pm_apply_fill(states, fill) ==
    LET state == states[fill.symbol]
        after == apply_fill(state.paradex, state.grvt, fill.exchange, fill.side,
                            fill.quantity)
    IN  [states EXCEPT ![fill.symbol] = [paradex |-> after[1], grvt |-> after[2]]]

(* PositionManager.set_positions(symbol, paradex, grvt) *)
pm_set_positions(states, symbol, a, b) ==
    [states EXCEPT ![symbol] = [paradex |-> a, grvt |-> b]]

PmCall(name, fill, before) == [name |-> name, fill |-> fill, before |-> before]

(* the latest two calls *)
PmRemember(call) ==
    IF Len(pm_calls) < 2 THEN Append(pm_calls, call) ELSE <<pm_calls[2], call>>

InitLedger ==
    /\ LoopRestInit
    /\ paradex = 0
    /\ grvt = 0
    /\ live_order_enabled = FALSE
    /\ PlannerParked
    /\ RuntimeParked
    /\ BucketParked
    /\ GuardsParked
    /\ ServicesParked

PmApplyFill ==
    \E fill \in PmFills :
        /\ pm_count < MaxLedgerCalls
        /\ pm_states' = pm_apply_fill(pm_states, fill)
        /\ pm_calls' = PmRemember(PmCall("apply_fill", fill, pm_states))
        /\ pm_count' = pm_count + 1
        /\ UNCHANGED <<loopVars, exceptLedger>>

PmSetPositions ==
    \E symbol \in PmSymbols, p \in PmPositions :
        /\ pm_count < MaxLedgerCalls
        /\ pm_states' = pm_set_positions(pm_states, symbol, p[1], p[2])
        /\ pm_calls' = PmRemember(PmCall("set_positions",
                                         TradeFill("none", symbol, "none", 0), pm_states))
        /\ pm_count' = pm_count + 1
        /\ UNCHANGED <<loopVars, exceptLedger>>

NextLedger ==
    \/ PmApplyFill
    \/ PmSetPositions

SpecLedger == InitLedger /\ [][NextLedger]_vars

----------------------------------------------------------------------------
(* the signed change a fill makes to a leg *)
PmDelta(fill) == IF fill.side = "buy" THEN fill.quantity ELSE 0 - fill.quantity

PmLeg(states, symbol, exchange) ==
    IF exchange = "paradex" THEN states[symbol].paradex ELSE states[symbol].grvt

PmLatest == pm_calls[Len(pm_calls)]

(* the latest call was apply_fill: the leg of the fill's venue moved by the *)
(* signed quantity and every other leg, of this and of every other symbol, *)
(* kept its value                                                          *)
PmFrame ==
    (pm_calls # <<>> /\ PmLatest.name = "apply_fill") =>
        \A s \in PmSymbols, e \in {"paradex", "grvt"} :
            PmLeg(pm_states, s, e) =
                PmLeg(PmLatest.before, s, e)
                  + (IF s = PmLatest.fill.symbol /\ e = PmLatest.fill.exchange
                     THEN PmDelta(PmLatest.fill) ELSE 0)

(* the latest two calls were a buy and a sell of one quantity on one venue *)
(* and symbol, in either order                                             *)
PmBuyThenSell ==
    /\ Len(pm_calls) = 2
    /\ pm_calls[1].name = "apply_fill"
    /\ pm_calls[2].name = "apply_fill"
    /\ pm_calls[1].fill.symbol = pm_calls[2].fill.symbol
    /\ pm_calls[1].fill.exchange = pm_calls[2].fill.exchange
    /\ pm_calls[1].fill.quantity = pm_calls[2].fill.quantity
    /\ pm_calls[1].fill.side # pm_calls[2].fill.side

PmInverse ==
    PmBuyThenSell =>
        PmLeg(pm_states, pm_calls[2].fill.symbol, pm_calls[2].fill.exchange)
          = PmLeg(pm_calls[1].before, pm_calls[2].fill.symbol, pm_calls[2].fill.exchange)

(* C34: apply_fill changes exactly the leg of the fill's venue, by         *)
(* +quantity for a buy and -quantity for a sell, and leaves the other leg  *)
(* and every other symbol's state unchanged; a buy of q followed by a sell *)
(* of q on the same venue and symbol, in either order, restores the leg.   *)
C34_ApplyFillFrame == PmFrame /\ PmInverse

(* a sell on grvt undone by a buy on grvt while the other symbol holds a   *)
(* synced position                                                         *)
C34_Witness ==
    /\ PmBuyThenSell
    /\ pm_calls[1].fill.side = "sell"
    /\ pm_calls[1].fill.exchange = "grvt"
    /\ \E s \in PmSymbols : s # pm_calls[1].fill.symbol /\ pm_states[s].paradex # 0

----------------------------------------------------------------------------
(* Serialization of the scanner's refresh *)

ScInFlight == {q \in ScRequests : sc_pc[q] = "scanning"}

(* q waits on the refresh lock, which only a scan holds for longer than a  *)
(* step: when q gets the lock, the refresh of another request has          *)
(* completed while q waited                                                *)
ScWaitedNonForced(q) == sc_pc[q] = "waiting" /\ ~sc_arrival[q].forced

(* q takes the lock in this step *)
ScTakesLock(q) == sc_pc[q] = "waiting" /\ sc_pc'[q] # "waiting"

(* the cache holds rows of a refresh that finished less than               *)
(* scan_interval_sec ago                                                   *)
ScFreshRows ==
    /\ sc_cache.rows # <<>>
    /\ sc_finished >= 0
    /\ sc_now - sc_finished < scan_interval_sec

ScOneScanAtATime == Cardinality(ScInFlight) <= 1

ScPoolBounded == sc_fetches.fetching <= 6 /\ sc_fetches.peak <= 6

(* C35 as stated: at most one venue scan is in flight; a non-forced        *)
(* request that waited on the refresh lock while another request's refresh *)
(* completed does not start a second scan; within one scan at most 6       *)
(* per-pair fetches are in flight at once.                                 *)
C35_Original ==
    /\ [](ScOneScanAtATime /\ ScPoolBounded)
    /\ [][\A q \in ScRequests : ScWaitedNonForced(q) => ~ScStartsScan(q)]_vars

(* C35: at most one venue scan is in flight; a non-forced request that     *)
(* waited on the refresh lock while another request's refresh completed    *)
(* tests the cache again once it has the lock and, when the cache then     *)
(* holds at least one row refreshed less than scan_interval_sec earlier,   *)
(* starts no second scan and is answered from the cache; within one scan   *)
(* at most 6 per-pair fetches are in flight at once.                       *)
C35_RefreshSerialized ==
    /\ [](ScOneScanAtATime /\ ScPoolBounded)
    /\ [][\A q \in ScRequests :
            (ScWaitedNonForced(q) /\ ScFreshRows) =>
                /\ ~ScStartsScan(q)
                /\ ScTakesLock(q) => ScAnsweredFromCache(q)]_vars

(* a non-forced request that waited was answered from the rows of a scan   *)
(* whose tasks had filled the pool, one of them waiting for a permit       *)
C35_Witness ==
    /\ sc_call.op = "cached"
    /\ sc_call.waited
    /\ ~sc_call.forced
    /\ sc_call.rows # <<>>
    /\ sc_fetches.done = MaxPairs
    /\ sc_fetches.peak = 6
    /\ ScInFlight = {}

----------------------------------------------------------------------------
(* Lifecycle of the engine *)

(* loop tasks of one enabled symbol that are alive: the one _tasks holds   *)
(* (until it has left its loop) and the one a later start() left behind    *)
RtAlive == (IF tasks # "none" THEN 1 ELSE 0) + (IF orphan_tasks THEN 1 ELSE 0)

(* the step is a call that was answered false on finding the given status *)
RtAnsweredFalse(name, statuses) ==
    /\ rt_call' # rt_call
    /\ rt_call'.op = name
    /\ rt_call'.ok = "false"
    /\ rt_call'.status \in statuses

RtNoSideEffect ==
    UNCHANGED <<engine_status, connected, tasks, orphan_tasks, config_live,
                simulated_market_data, simulate_market_data, live_order_enabled,
                repository_closed>>

(* C36: for every interleaving of start, stop and shutdown calls,          *)
(* including starts that fail part-way and leave the status ERROR, at most *)
(* one loop task per enabled symbol is alive, no symbol loop task is alive *)
(* while the status is STOPPED, start returns false without side effects   *)
(* when the status is STARTING or RUNNING, and stop returns false without  *)
(* side effects when the status is STOPPED or STOPPING.                    *)
C36_LifecycleInvariant ==
    /\ [](RtAlive <= 1)
    /\ [](engine_status = "stopped" => RtAlive = 0)
    /\ [][RtAnsweredFalse("start", {"starting", "running"}) => RtNoSideEffect]_vars
    /\ [][RtAnsweredFalse("stop", {"stopped", "stopping"}) => RtNoSideEffect]_vars

----------------------------------------------------------------------------
(* Position-reducing engine calls of two tasks on one symbol: the symbol   *)
(* loop (hard-limit flatten, rebalance or CLOSE) and the operator's        *)
(* flatten_symbol.  Each call builds its requests from the ledger it finds *)
(* and suspends in _submit, once per request; nothing serializes the two.  *)

(* ledgers the calls start from *)
CrLedgers == {<<20, 0>>, <<40, -4>>, <<-10, 30>>, <<8, -8>>}

(* the engine calls the loop can make on ledger <<a, b>> *)
CrLoopKinds(a, b) ==
    (IF is_hard_limit_breached(a, b, hard_limit) THEN {"flatten"} ELSE {})
      \cup (IF is_imbalanced(a, b, net_guard) THEN {"rebalance"} ELSE {})
      \cup {"close"}

(* the requests of an engine call, built from the ledger at that moment *)
CrRequests(kind, a, b) ==
    IF kind = "flatten" THEN FlattenRequests(a, b)
    ELSE IF kind = "rebalance"
    THEN RebalanceRequests(build_rebalance_orders(a, b, net_guard, base_order_qty))
    ELSE CloseRequests(a, b, Signal("close", "none", <<>>))

CrCall(kind, reqs) ==
    [pc |-> IF reqs = <<>> THEN "done" ELSE "orders", kind |-> kind, requests |-> reqs]

InitReduce ==
    /\ LoopRestInit
    /\ paradex = 0
    /\ grvt = 0
    /\ live_order_enabled = TRUE
    /\ PlannerParked
    /\ RuntimeParked
    /\ BucketParked
    /\ GuardsParked
    /\ ServicesParkedExcept("reduce")
    /\ cr_ledger \in CrLedgers
    /\ cr_task = [t \in CrTasks |-> CrIdle]
    /\ cr_start = cr_ledger
    /\ cr_submitted = [v \in Venues |-> 0]

(* the loop reaches flatten_symbol, execute_rebalance or _close_position *)
CrLoopCall ==
    \E kind \in CrLoopKinds(cr_ledger[1], cr_ledger[2]) :
        /\ cr_task["loop"].pc = "idle"
        /\ cr_task' = [cr_task EXCEPT !["loop"] =
                          CrCall(kind, CrRequests(kind, cr_ledger[1], cr_ledger[2]))]
        /\ UNCHANGED <<loopVars, exceptReduce, cr_ledger, cr_start, cr_submitted>>

(* ArbitrageOrchestrator.flatten_symbol, called by the operator *)
CrOperatorFlatten ==
    /\ cr_task["operator"].pc = "idle"
    /\ cr_task' = [cr_task EXCEPT !["operator"] =
                      CrCall("flatten", CrRequests("flatten", cr_ledger[1], cr_ledger[2]))]
    /\ UNCHANGED <<loopVars, exceptReduce, cr_ledger, cr_start, cr_submitted>>

(* _submit of the next request of a call: the limiter answers and, when it *)
(* allows, the request is handed to the adapter                            *)
CrPlaceOrder ==
    \E t \in CrTasks, allowed \in BOOLEAN :
        /\ cr_task[t].pc = "orders"
        /\ LET req == Head(cr_task[t].requests) IN
           IF allowed
           THEN /\ cr_task' = [cr_task EXCEPT ![t].pc = "placed"]
                /\ cr_submitted' = [cr_submitted EXCEPT ![req.exchange] = @ + req.quantity]
           ELSE /\ cr_task' = [cr_task EXCEPT ![t] =
                                  CrCall(cr_task[t].kind, Tail(cr_task[t].requests))]
                /\ UNCHANGED cr_submitted
        /\ UNCHANGED <<loopVars, exceptReduce, cr_ledger, cr_start>>

(* the adapter answers: the acknowledged fill is booked and the call goes  *)
(* on to its next request                                                  *)
CrOrderAck ==
    \E t \in CrTasks :
        /\ cr_task[t].pc = "placed"
        /\ LET req == Head(cr_task[t].requests) IN
           \E res \in PlaceOrderResults(req) :
              LET ack == SubmitAck(req, TRUE, res)
                  ok == ack.success /\ ack.filled > 0
              IN  /\ cr_ledger' = IF ok
                                  THEN apply_fill(cr_ledger[1], cr_ledger[2], req.exchange,
                                                  req.side, ack.filled)
                                  ELSE cr_ledger
                  /\ cr_submitted' =
                        [cr_submitted EXCEPT ![req.exchange] =
                            @ - req.quantity + (IF ok THEN ack.filled ELSE 0)]
        /\ cr_task' = [cr_task EXCEPT ![t] =
                          CrCall(cr_task[t].kind, Tail(cr_task[t].requests))]
        /\ UNCHANGED <<loopVars, exceptReduce, cr_start>>

NextReduce ==
    \/ CrLoopCall
    \/ CrOperatorFlatten
    \/ CrPlaceOrder
    \/ CrOrderAck

SpecReduce == InitReduce /\ [][NextReduce]_vars

----------------------------------------------------------------------------
CrSign(x) == IF x > 0 THEN 1 ELSE IF x < 0 THEN -1 ELSE 0

CrLegOf(ledger, v) == IF v = "paradex" THEN ledger[1] ELSE ledger[2]

CrSize(x) == IF x < 0 THEN 0 - x ELSE x

(* C37: when the operator's flatten request runs while the symbol's loop   *)
(* is executing a flatten, close or rebalance, the total reduce-only       *)
(* quantity submitted for a leg (what has been booked as filled and what   *)
(* is with the venue, orders answered without a fill not counted) never    *)
(* exceeds that leg's absolute position, and no leg ends with the sign     *)
(* opposite to the one it had before the operations began.                 *)
C37_ConcurrentReducersSafe ==
    \A v \in Venues :
        /\ cr_submitted[v] <= CrSize(CrLegOf(cr_start, v))
        /\ CrSign(CrLegOf(cr_ledger, v)) # 0 - CrSign(CrLegOf(cr_start, v))
             \/ CrLegOf(cr_ledger, v) = 0

----------------------------------------------------------------------------
(* Health probes of several symbol loops that share one HealthGuard, on    *)
(* real market data, where adapter.health_check suspends.  Of a HealthItem *)
(* only last_check_ms is kept here; ok and fail_count are the subject of   *)
(* SpecHealth.                                                             *)

(* HealthGuard.should_check(exchange) *)
should_check(last_check, exchange, now) ==
    IF last_check[exchange] = NoCheck THEN TRUE
    ELSE now - last_check[exchange] >= health_cache_ms

(* the part of HealthGuard.update(exchange, ok, message) kept here *)
health_update_last_check(last_check, exchange, now) ==
    [last_check EXCEPT ![exchange] = now]

(* the loop checks paradex, then grvt, then goes on to its next iteration *)
HpAfter(exchange) == IF exchange = "paradex" THEN "grvt" ELSE "paradex"

InitProbes ==
    /\ LoopRestInit
    /\ paradex = 0
    /\ grvt = 0
    /\ live_order_enabled = FALSE
    /\ PlannerParked
    /\ RuntimeParked
    /\ BucketParked
    /\ GuardsParked
    /\ ServicesParked

(* if self.health_guard.should_check(v): the probe is started and the loop *)
(* suspends in it, or the venue is passed over                             *)
HpShouldCheck ==
    \E l \in HpLoops :
        /\ ~hp_pc[l].probing
        /\ LET v == hp_pc[l].exchange IN
           IF should_check(hp_last_check, v, hp_now)
           THEN /\ hp_pc' = [hp_pc EXCEPT ![l] = HpAt(v, TRUE)]
                /\ hp_started' = [hp_started EXCEPT ![v] = hp_now]
                /\ hp_call' = HpCall("health_check", l, v, hp_started[v])
           ELSE /\ hp_pc' = [hp_pc EXCEPT ![l] = HpAt(HpAfter(v), FALSE)]
                /\ hp_call' = HpCall("skip", l, v, hp_started[v])
                /\ UNCHANGED hp_started
        /\ UNCHANGED <<loopVars, exceptProbe, hp_last_check, hp_now>>

(* health_check returns and the guard is updated *)
HpProbeReturns ==
    \E l \in HpLoops :
        /\ hp_pc[l].probing
        /\ LET v == hp_pc[l].exchange IN
           /\ hp_last_check' = health_update_last_check(hp_last_check, v, hp_now)
           /\ hp_pc' = [hp_pc EXCEPT ![l] = HpAt(HpAfter(v), FALSE)]
           /\ hp_call' = HpCall("update", l, v, hp_started[v])
        /\ UNCHANGED <<loopVars, exceptProbe, hp_now, hp_started>>

(* the wall clock advances *)
HpTick ==
    /\ hp_now < MaxProbeTime
    /\ hp_now' = hp_now + 1
    /\ hp_call' = HpCall("tick", "none", "none", NoCheck)
    /\ UNCHANGED <<loopVars, exceptProbe, hp_last_check, hp_pc, hp_started>>

NextProbes ==
    \/ HpShouldCheck
    \/ HpProbeReturns
    \/ HpTick

SpecProbes == InitProbes /\ [][NextProbes]_vars

----------------------------------------------------------------------------
(* a health_check of venue v has just been started; hp_call.last is when   *)
(* the one before it was started                                           *)
HpJustStarted(v) == hp_call.op = "health_check" /\ hp_call.exchange = v

(* C38: health probes are rate-limited per venue across all symbol loops:  *)
(* any two health-check calls issued to the same venue adapter are started *)
(* at least cache_ms apart; two loops never both start a probe of the same *)
(* venue inside one cache window.                                          *)
C38_ProbesRateLimited ==
    \A v \in Venues :
        (HpJustStarted(v) /\ hp_call.last # NoCheck) =>
            hp_started[v] - hp_call.last >= health_cache_ms

----------------------------------------------------------------------------
(* Overshoot of the position cap *)

PoSize(x) == IF x < 0 THEN 0 - x ELSE x

(* max(|leg_A|, |leg_B|) *)
PoLargest(a, b) == IF PoSize(a) >= PoSize(b) THEN PoSize(a) ELSE PoSize(b)

(* the largest batch-quantity sum of an OPEN signal: 2.2 * base_order_qty *)
PoLargestOpen == (22 * base_order_qty) \div 10

PoOverCap == PoSize(paradex) > max_position \/ PoSize(grvt) > max_position

(* execute_signal is entered with an OPEN signal *)
PoOpenEntered == pc = "exec" /\ signal.action = "open" /\ calls' # calls

PoRefused ==
    /\ op' = "idle"
    /\ submitted' = submitted
    /\ tokens' = tokens
    /\ paradex' = paradex
    /\ grvt' = grvt

(* an order of a CLOSE, a REBALANCE or a FLATTEN is answered in this step *)
PoReducingOrder ==
    /\ Len(log') = Len(log) + 1
    /\ log'[Len(log')].req.tag \in {"close", "rebalance", "flatten"}

----------------------------------------------------------------------------
(* Order of the engine calls of one iteration *)

ItRank(c) == IF c = "flatten" THEN 1 ELSE IF c = "rebalance" THEN 2 ELSE 3

(* hard-limit flatten, then rebalance, then the signal: each at most once *)
ItOrdered ==
    \A i, j \in 1..Len(calls) : i < j => ItRank(calls[i]) < ItRank(calls[j])

ItSize(x) == IF x < 0 THEN 0 - x ELSE x

ItEntryLeg(v) == IF v = "paradex" THEN entry.paradex ELSE entry.grvt

(* the hard-limit flatten of this iteration has returned and every leg it  *)
(* found open was filled in full                                           *)
ItFlattenFilled ==
    /\ calls = <<"flatten">>
    /\ entry.kind = "flatten"
    /\ op = "idle"
    /\ \A v \in Venues :
          ItEntryLeg(v) # 0 =>
              \E i \in 1..Len(log) :
                  /\ log[i].req.exchange = v
                  /\ log[i].success
                  /\ log[i].filled = ItSize(ItEntryLeg(v))

(* C40: within one iteration the engine calls come in the order hard-limit *)
(* flatten, rebalance, signal execution, and the rebalance decision is     *)
(* taken on the ledger as the flatten fills left it: after a hard-limit    *)
(* flatten that filled every leg in full the ledger is not imbalanced and  *)
(* no rebalance order is submitted in that iteration.                      *)
C40_IterationOrder ==
    /\ []ItOrdered
    /\ [](ItFlattenFilled => ItSize(paradex + grvt) <= net_guard)
    /\ [][ItFlattenFilled =>
            /\ calls' # Append(calls, "rebalance")
            /\ Len(log') > Len(log) => log'[Len(log')].req.tag # "rebalance"]_vars

(* both legs were flattened in full, the rebalance step found nothing to   *)
(* do and the loop has come to the execution of its signal                 *)
C40_Witness ==
    /\ ItFlattenFilled
    /\ Len(log) = 2
    /\ pc = "exec"
    /\ paradex = 0
    /\ grvt = 0

====
